---- MODULE Spec2Model ----
(***************************************************************************)
(* Content sealing (Merkle root + time-lock seal) and its consumers,       *)
(* modelled from src/utils/merkleTree.ts and src/utils/notary.ts.          *)
(*                                                                         *)
(* STRINGS.  A JavaScript string is a sequence of UTF-16 code units.  It   *)
(* is represented run-length encoded, as a sequence of runs                *)
(*     [c |-> unit, h |-> <<>>, o |-> 0, n |-> k]     k copies of unit c   *)
(*     [c |-> "#", h |-> <<p>>, o |-> i, n |-> k]     characters i..i+k-1  *)
(*                                    of the 64 hex characters SHA-256(p)  *)
(* kept in normal form (no empty run, no two adjacent runs that join), so  *)
(* that two strings are equal exactly when their representations are.      *)
(* SHA-256 is collision-free: the digest of p is the term that holds p.    *)
(***************************************************************************)
EXTENDS Integers, Sequences, FiniteSets, TLC

\* chunkContent's default chunkSize.
ChunkSize == 4096

\* Hex characters of a SHA-256 digest (32 bytes, two characters each).
HashLen == 64

---------------------------------------------------------------------------
(* JavaScript strings *)

Ch(u, k) == [c |-> u, h |-> <<>>, o |-> 0, n |-> k]

\* The string of one code unit u, and the string of the units of a tuple.
Lit(u) == <<Ch(u, 1)>>

EmptyStr == <<>>

IsDigestRun(r) == r.h # <<>>

\* Two adjacent runs that are one run.
Joins(r, q) ==
    /\ r.c = q.c
    /\ r.h = q.h
    /\ IsDigestRun(r) => q.o = r.o + r.n

RECURSIVE Norm(_)
Norm(s) ==
    IF s = <<>> THEN <<>>
    ELSE LET r == Head(s)
             t == Norm(Tail(s))
         IN  IF r.n = 0 THEN t
             ELSE IF t # <<>> /\ Joins(r, Head(t))
                  THEN <<[r EXCEPT !.n = r.n + Head(t).n]>> \o Tail(t)
                  ELSE <<r>> \o t

\* String concatenation, a + b.
Cat(a, b) == Norm(a \o b)

RECURSIVE StrLen(_)
\* String.prototype.length, in UTF-16 code units.
StrLen(s) == IF s = <<>> THEN 0 ELSE Head(s).n + StrLen(Tail(s))

Min(a, b) == IF a < b THEN a ELSE b
Max(a, b) == IF a > b THEN a ELSE b

RECURSIVE SliceAt(_, _, _, _)
\* The part of s, whose first run starts at position pos, within [i, j).
SliceAt(s, pos, i, j) ==
    IF s = <<>> \/ pos >= j THEN <<>>
    ELSE LET r  == Head(s)
             lo == Max(i, pos)
             hi == Min(j, pos + r.n)
             rest == SliceAt(Tail(s), pos + r.n, i, j)
         IN  IF lo < hi
             THEN <<[r EXCEPT !.o = IF IsDigestRun(r) THEN r.o + (lo - pos) ELSE 0,
                              !.n = hi - lo]>> \o rest
             ELSE rest

\* String.prototype.slice(i, j) for 0 <= i <= j.
Slice(s, i, j) == Norm(SliceAt(s, 0, i, j))

\* k copies of the string s.
RECURSIVE Repeat(_, _)
Repeat(s, k) == IF k = 0 THEN <<>> ELSE Cat(s, Repeat(s, k - 1))

---------------------------------------------------------------------------
(* The digest primitive: sha256, src/utils/merkleTree.ts:23-31 *)

\* UTF-16 surrogate code units of the model's alphabet, and the replacement
\* character U+FFFD.
HighSurrogates == {"HS"}
LowSurrogates == {"LS1", "LS2"}
Replacement == "FFFD"

\* The code point a surrogate pair encodes.
Astral(hi, lo) == IF lo = "LS1" THEN "U1" ELSE "U2"

RECURSIVE EncodeRuns(_)
EncodeRuns(s) ==
    IF s = <<>> THEN <<>>
    ELSE LET r == Head(s)
             t == Tail(s)
         IN  IF IsDigestRun(r) THEN <<r>> \o EncodeRuns(t)
             ELSE IF r.c \in HighSurrogates
             THEN IF t # <<>> /\ ~IsDigestRun(Head(t)) /\ Head(t).c \in LowSurrogates
                  THEN <<Ch(Replacement, r.n - 1), Ch(Astral(r.c, Head(t).c), 1)>>
                       \o EncodeRuns(<<[Head(t) EXCEPT !.n = @ - 1]>> \o Tail(t))
                  ELSE <<Ch(Replacement, r.n)>> \o EncodeRuns(t)
             ELSE IF r.c \in LowSurrogates
             THEN <<Ch(Replacement, r.n)>> \o EncodeRuns(t)
             ELSE <<r>> \o EncodeRuns(t)

\* new TextEncoder().encode(data): the UTF-8 bytes of data, as the sequence of
\* code points they encode.  A surrogate pair is one code point; an unpaired
\* surrogate is encoded as U+FFFD.
Encode(data) == Norm(EncodeRuns(data))

\* sha256(data) for a string: the hex digest of the UTF-8 bytes of data.
sha256(data) == <<[c |-> "#", h |-> <<Encode(data)>>, o |-> 0, n |-> HashLen]>>

---------------------------------------------------------------------------
(* chunkContent and buildMerkleRoot, src/utils/merkleTree.ts:36-71 *)

RECURSIVE ChunksFrom(_, _, _)
\* The loop of chunkContent from index i on.
ChunksFrom(content, chunkSize, i) ==
    IF i < StrLen(content)
    THEN <<Slice(content, i, i + chunkSize)>> \o ChunksFrom(content, chunkSize, i + chunkSize)
    ELSE <<>>

chunkContentNoDefault(content, chunkSize) == ChunksFrom(content, chunkSize, 0)
chunkContent(content, chunkSize) ==
    LET chunks == ChunksFrom(content, chunkSize, 0)
    IN  IF Len(chunks) > 0 THEN chunks ELSE <<EmptyStr>>

\* One pass of the while loop of buildMerkleRoot: nextLevel from level.
NextLevelDuplicating(level) ==
    [k \in 1..((Len(level) + 1) \div 2) |->
        IF 2 * k <= Len(level)
        THEN sha256(Cat(level[2 * k - 1], level[2 * k]))
        ELSE sha256(Cat(level[2 * k - 1], level[2 * k - 1]))]
NextLevel(level) ==
    [k \in 1..((Len(level) + 1) \div 2) |->
        IF 2 * k <= Len(level)
        THEN sha256(Cat(level[2 * k - 1], level[2 * k]))
        ELSE level[2 * k - 1]]

RECURSIVE ReduceLevels(_)
\* The while loop of buildMerkleRoot.
ReduceLevels(level) ==
    IF Len(level) > 1 THEN ReduceLevels(NextLevel(level)) ELSE level

\* The leaf hashes of content.
LeafHashes(content) ==
    LET chunks == chunkContent(content, ChunkSize)
    IN  [k \in 1..Len(chunks) |-> sha256(chunks[k])]

buildMerkleRoot(content) == ReduceLevels(LeafHashes(content))[1]

---------------------------------------------------------------------------
(* JavaScript values, as far as createTimeLockSeal and verifyTimeLockSeal    *)
(* read them: a string, a number, undefined (also a missing property), null, *)
(* a symbol, and an array holding one string.                                *)

JsStr(s) == [t |-> "string", s |-> s, n |-> 0]
JsNum(k) == [t |-> "number", s |-> <<>>, n |-> k]
JsUndef == [t |-> "undefined", s |-> <<>>, n |-> 0]
JsNull == [t |-> "null", s |-> <<>>, n |-> 0]
JsSym == [t |-> "symbol", s |-> <<>>, n |-> 0]
JsArr(s) == [t |-> "array", s |-> s, n |-> 0]

\* The string of the code units of a tuple.
RECURSIVE Text(_)
Text(units) == IF units = <<>> THEN <<>> ELSE Cat(Lit(Head(units)), Text(Tail(units)))

DecimalDigits == <<"0", "1", "2", "3", "4", "5", "6", "7", "8", "9">>
HexDigits == DecimalDigits \o <<"a", "b", "c", "d", "e", "f">>

RECURSIVE ToDecimal(_)
\* Number.prototype.toString() of a non-negative integer.
ToDecimal(k) ==
    IF k < 10 THEN Lit(DecimalDigits[k + 1])
    ELSE Cat(ToDecimal(k \div 10), Lit(DecimalDigits[(k % 10) + 1]))

\* An outcome of an evaluation that may throw.
Value(v) == [thrown |-> FALSE, v |-> v]
Throws == [thrown |-> TRUE, v |-> <<>>]

\* `${v}` in a template literal, and v + '' : ToString(v).
ToStrStrict(v) ==
    CASE v.t = "string" -> Value(v.s)
      [] v.t = "number" -> Value(ToDecimal(v.n))
      [] v.t = "array" -> Value(v.s)
      [] OTHER -> Throws
ToStr(v) ==
    CASE v.t = "string" -> Value(v.s)
      [] v.t = "number" -> Value(ToDecimal(v.n))
      [] v.t = "undefined" -> Value(Text(<<"u", "n", "d", "e", "f", "i", "n", "e", "d">>))
      [] v.t = "null" -> Value(Text(<<"n", "u", "l", "l">>))
      [] v.t = "array" -> Value(v.s)
      [] v.t = "symbol" -> Throws

DigitValue(u) == CHOOSE d \in 0..9 : DecimalDigits[d + 1] = u

RECURSIVE ParseDecimal(_, _)
\* The number a string of decimal digits denotes (acc: the digits read so far);
\* -1 stands for NaN.
ParseDecimal(s, acc) ==
    IF s = <<>> THEN acc
    ELSE LET r == Head(s)
         IN  IF IsDigestRun(r) \/ r.c \notin {DecimalDigits[i] : i \in 1..10} THEN -1
             ELSE ParseDecimal(Norm(<<[r EXCEPT !.n = @ - 1]>> \o Tail(s)),
                               acc * 10 + DigitValue(r.c))

\* ToNumber(v), as the relational comparison v > k applies it: [thrown, nan, n].
ToNumber(v) ==
    CASE v.t = "number" -> [thrown |-> FALSE, nan |-> FALSE, n |-> v.n]
      [] v.t \in {"string", "array"} ->
            LET k == ParseDecimal(v.s, 0)
            IN  [thrown |-> FALSE, nan |-> k < 0, n |-> k]
      [] v.t = "undefined" -> [thrown |-> FALSE, nan |-> TRUE, n |-> 0]
      [] v.t = "null" -> [thrown |-> FALSE, nan |-> FALSE, n |-> 0]
      [] v.t = "symbol" -> [thrown |-> TRUE, nan |-> FALSE, n |-> 0]

\* a === b for a string a and a value b.
StrictEq(a, b) == b.t = "string" /\ b.s = a

---------------------------------------------------------------------------
(* createTimeLockSeal and verifyTimeLockSeal, src/utils/merkleTree.ts:88-143 *)

\* new Uint8Array(16)
NonceBytes == 16

\* b.toString(16) of a byte.
ByteToString16(b) ==
    IF b < 16 THEN Lit(HexDigits[b + 1])
    ELSE Cat(Lit(HexDigits[(b \div 16) + 1]), Lit(HexDigits[(b % 16) + 1]))

\* str.padStart(2, '0')
PadStart2Missing(str) == str
PadStart2(str) == IF StrLen(str) < 2 THEN Cat(Repeat(Lit("0"), 2 - StrLen(str)), str) ELSE str

RECURSIVE JoinHex(_)
\* Array.from(bytes).map(b => b.toString(16).padStart(2, '0')).join('')
JoinHex(bytes) ==
    IF bytes = <<>> THEN EmptyStr
    ELSE Cat(PadStart2(ByteToString16(Head(bytes))), JoinHex(Tail(bytes)))

\* `${contentHash}:${timestamp}:${nonce}` of three values.
SealData(contentHash, timestamp, nonce) ==
    LET a == ToStr(contentHash)
        b == ToStr(timestamp)
        c == ToStr(nonce)
    IN  IF a.thrown \/ b.thrown \/ c.thrown THEN Throws
        ELSE Value(Cat(a.v, Cat(Lit(":"), Cat(b.v, Cat(Lit(":"), c.v)))))

\* A seal object; kind tells an object from null and undefined.
SealObject(contentHash, timestamp, nonce, sealHash, version) ==
    [kind |-> "object", contentHash |-> contentHash, timestamp |-> timestamp,
     nonce |-> nonce, sealHash |-> sealHash, version |-> version]

NullSeal == [SealObject(JsUndef, JsUndef, JsUndef, JsUndef, JsUndef) EXCEPT !.kind = "null"]
UndefinedSeal == [SealObject(JsUndef, JsUndef, JsUndef, JsUndef, JsUndef) EXCEPT !.kind = "undefined"]

\* createTimeLockSeal(content) when Date.now() reads clock and
\* crypto.getRandomValues fills nonceArray.
createTimeLockSeal(content, clock, nonceArray) ==
    LET contentHash == buildMerkleRoot(content)
        timestamp == clock
        nonce == JoinHex(nonceArray)
        sealData == SealData(JsStr(contentHash), JsNum(timestamp), JsStr(nonce)).v
        sealHash == sha256(sealData)
    IN  SealObject(JsStr(contentHash), JsNum(timestamp), JsStr(nonce), JsStr(sealHash), JsNum(1))

\* await buildMerkleRoot(content) for any argument value: reading .length of
\* null or undefined throws; a number or a symbol has no length, so the loop
\* of chunkContent does not run and the one chunk is ''; slicing an array gives
\* an array, which the digest primitive rejects; and the digest primitive
\* itself may fail (digestOk = FALSE).
BuildRootOf(content, digestOk) ==
    CASE content.t \in {"null", "undefined"} -> Throws
      [] content.t = "array" -> Throws
      [] content.t \in {"number", "symbol"} ->
            IF digestOk THEN Value(buildMerkleRoot(EmptyStr)) ELSE Throws
      [] content.t = "string" ->
            IF digestOk THEN Value(buildMerkleRoot(content.s)) ELSE Throws

\* { valid, reason }; reason "" is no reason.  thrown = TRUE is no result: the
\* evaluation threw (the promise is rejected).
Result(valid, reason) == [thrown |-> FALSE, valid |-> valid, reason |-> reason]

\* seal.timestamp > Date.now(), without the symbol case: a comparison with NaN
\* is false.
TimestampInFutureGe(ts, clock) == ~ts.nan /\ ts.n >= clock
TimestampInFutureNever(ts, clock) == FALSE
TimestampInFuture(ts, clock) == ~ts.nan /\ ts.n > clock

\* The try block of verifyTimeLockSeal: a result, or thrown = TRUE.
VerifyTry(content, seal, clock, digestOk) ==
    LET root == BuildRootOf(content, digestOk)
        Raise == [Result(FALSE, "") EXCEPT !.thrown = TRUE]
    IN  IF root.thrown THEN Raise
        ELSE IF seal.kind # "object" THEN Raise
        ELSE IF ~StrictEq(root.v, seal.contentHash)
        THEN Result(FALSE, "Content has been modified")
        ELSE LET sealData == SealData(seal.contentHash, seal.timestamp, seal.nonce)
             IN  IF sealData.thrown THEN Raise
                 ELSE IF ~StrictEq(sha256(sealData.v), seal.sealHash)
                 THEN Result(FALSE, "Seal has been tampered with")
                 ELSE LET ts == ToNumber(seal.timestamp)
                      IN  IF ts.thrown THEN Raise
                          ELSE IF TimestampInFuture(ts, clock)
                          THEN Result(FALSE, "Timestamp is in the future")
                          ELSE Result(TRUE, "")

\* verifyTimeLockSeal(content, seal) when Date.now() reads clock: the try
\* block, and the catch clause for whatever it throws.
verifyTimeLockSealNoCatch(content, seal, clock, digestOk) ==
    VerifyTry(content, seal, clock, digestOk)
verifyTimeLockSeal(content, seal, clock, digestOk) ==
    LET r == VerifyTry(content, seal, clock, digestOk)
    IN  IF r.thrown THEN Result(FALSE, "Verification error") ELSE r

---------------------------------------------------------------------------
(* generateEvidenceHTML and the verifier script it embeds,                   *)
(* src/utils/notary.ts:118-127 and 294-375                                   *)

RECURSIVE UnitAt(_, _)
\* The code unit of s at position i < StrLen(s); "#" for a character of a digest.
UnitAt(s, i) ==
    IF i < Head(s).n THEN (IF IsDigestRun(Head(s)) THEN "#" ELSE Head(s).c)
    ELSE UnitAt(Tail(s), i - Head(s).n)

RECURSIVE RunRest(_, _)
\* The number of code units from position i of s to the end of its run.
RunRest(s, i) ==
    IF i < Head(s).n THEN Head(s).n - i ELSE RunRest(Tail(s), i - Head(s).n)

\* The units pat occur in s from position i on.
MatchesAt(s, i, pat) ==
    /\ i + Len(pat) <= StrLen(s)
    /\ \A k \in 1..Len(pat) : UnitAt(s, i + k - 1) = pat[k]

RECURSIVE ReplaceFrom(_, _, _, _)
ReplaceFrom(s, i, pat, rep) ==
    IF i >= StrLen(s) THEN <<>>
    ELSE IF MatchesAt(s, i, pat) THEN rep \o ReplaceFrom(s, i + Len(pat), pat, rep)
    ELSE IF UnitAt(s, i) = pat[1]
    THEN SliceAt(s, 0, i, i + 1) \o ReplaceFrom(s, i + 1, pat, rep)
    ELSE LET e == i + RunRest(s, i)
         IN  SliceAt(s, 0, i, e) \o ReplaceFrom(s, e, pat, rep)

\* s.replace(/pat/g, rep) for a pattern of literal code units.
ReplaceAll(s, pat, rep) == Norm(ReplaceFrom(s, 0, pat, rep))

\* The five characters generateEvidenceHTML escapes, each with the two hex
\* digits of its escape \xhh, in the order of the replace calls.
Escaped == <<<<"<", "3", "c">>, <<">", "3", "e">>, <<"&", "2", "6">>,
             <<"APOS", "2", "7">>, <<"QUOT", "2", "2">>>>

RECURSIVE EscapeFrom(_, _)
EscapeFrom(s, k) ==
    IF k > Len(Escaped) THEN s
    ELSE EscapeFrom(ReplaceAll(s, <<Escaped[k][1]>>,
                               Text(<<"BACKSLASH", "x", Escaped[k][2], Escaped[k][3]>>)),
                    k + 1)

\* escapedContent of generateEvidenceHTML.
EscapeContent(contentHtml) == EscapeFrom(contentHtml, 1)

\* The value JSON.stringify writes for a property, read back as a literal:
\* a symbol is left out.
JsonValue(v) == IF v.t = "symbol" THEN JsUndef ELSE v

\* generateEvidenceHTML(evidence): the two places of the page the embedded
\* script reads, the body of the string literal originalContent and the object
\* literal seal.  The page header renders the seal's fields in the template,
\* the timestamp with toISOString: a symbol, or a timestamp that is no valid
\* date, throws.
generateEvidenceHTML(evidence) ==
    IF \/ evidence.seal.kind # "object"
       \/ \E f \in {"contentHash", "sealHash", "nonce"} : evidence.seal[f].t = "symbol"
       \/ evidence.seal.timestamp.t \in {"undefined", "symbol"}
    THEN [thrown |-> TRUE, originalContent |-> <<>>, seal |-> evidence.seal]
    ELSE [thrown |-> FALSE,
          originalContent |-> EscapeContent(evidence.contentHtml),
          seal |-> [f \in DOMAIN evidence.seal |->
                      IF f = "kind" THEN evidence.seal[f] ELSE JsonValue(evidence.seal[f])]]

\* The code units a browser names by their code in an escape sequence.
CodeUnit(code) ==
    CASE code = 60 -> "<" [] code = 62 -> ">" [] code = 38 -> "&"
      [] code = 39 -> "APOS" [] code = 34 -> "QUOT" [] code = 10 -> "LF"
      [] code = 92 -> "BACKSLASH" [] code = 97 -> "a" [] code = 98 -> "b"
      [] code = 99 -> "c" [] code = 120 -> "x" [] code = 51 -> "3"
      [] OTHER -> "OTHER"

IsHexDigit(u) == \E k \in 1..16 : HexDigits[k] = u
HexValue(u) == (CHOOSE k \in 1..16 : HexDigits[k] = u) - 1
IsOctalDigit(u) == \E k \in 1..8 : HexDigits[k] = u

\* The single-character escapes other than the character itself.
SingleEscapes == [n |-> "LF", t |-> "TAB", r |-> "CR", b |-> "BS", f |-> "FF", v |-> "VT"]

\* The number of digits of the legacy octal escape at position i of s.
OctalDigits(s, i) ==
    LET more(k) == i + k < StrLen(s) /\ IsOctalDigit(UnitAt(s, i + k))
    IN  IF ~more(1) THEN 1
        ELSE IF HexValue(UnitAt(s, i)) <= 3 /\ more(2) THEN 3 ELSE 2

RECURSIVE OctalValue(_, _, _)
OctalValue(s, i, k) ==
    IF k = 0 THEN 0
    ELSE 8 * OctalValue(s, i, k - 1) + HexValue(UnitAt(s, i + k - 1))

RECURSIVE LiteralFrom(_, _)
\* The value of the double-quoted string literal whose body is s, read from
\* position i on, in a classic (non-strict) script; thrown is a SyntaxError.
LiteralFrom(s, i) ==
    IF i >= StrLen(s) THEN Value(<<>>)
    ELSE LET u == UnitAt(s, i)
             Then(str, j) ==
                 LET rest == LiteralFrom(s, j)
                 IN  IF rest.thrown THEN Throws ELSE Value(str \o rest.v)
         IN  IF u \in {"LF", "CR", "QUOT"} THEN Throws
             ELSE IF u # "BACKSLASH"
             THEN Then(SliceAt(s, 0, i, i + RunRest(s, i)), i + RunRest(s, i))
             ELSE IF i + 1 >= StrLen(s) THEN Throws
             ELSE LET e == UnitAt(s, i + 1)
                  IN  CASE e = "x" ->
                              IF /\ i + 3 < StrLen(s)
                                 /\ IsHexDigit(UnitAt(s, i + 2))
                                 /\ IsHexDigit(UnitAt(s, i + 3))
                              THEN Then(Lit(CodeUnit(16 * HexValue(UnitAt(s, i + 2))
                                                     + HexValue(UnitAt(s, i + 3)))), i + 4)
                              ELSE Throws
                        [] e = "u" ->
                              IF /\ i + 5 < StrLen(s)
                                 /\ \A k \in 2..5 : IsHexDigit(UnitAt(s, i + k))
                              THEN Then(Lit(CodeUnit(4096 * HexValue(UnitAt(s, i + 2))
                                                     + 256 * HexValue(UnitAt(s, i + 3))
                                                     + 16 * HexValue(UnitAt(s, i + 4))
                                                     + HexValue(UnitAt(s, i + 5)))), i + 6)
                              ELSE Throws
                        [] e \in {"LF", "CR"} -> Then(<<>>, i + 2)
                        [] e \in DOMAIN SingleEscapes -> Then(Lit(SingleEscapes[e]), i + 2)
                        [] IsOctalDigit(e) ->
                              LET k == OctalDigits(s, i + 1)
                              IN  Then(Lit(CodeUnit(OctalValue(s, i + 1, k))), i + 1 + k)
                        [] OTHER -> Then(SliceAt(s, 0, i + 1, i + 2), i + 2)

\* The string const originalContent = "..." denotes.
ParseStringLiteral(body) ==
    LET r == LiteralFrom(body, 0)
    IN  IF r.thrown THEN Throws ELSE Value(Norm(r.v))

RECURSIVE UnescapeFrom(_, _)
UnescapeFrom(s, k) ==
    IF k > Len(Escaped) THEN s
    ELSE UnescapeFrom(ReplaceAll(s, <<"BACKSLASH", "x", Escaped[k][2], Escaped[k][3]>>,
                                 Lit(Escaped[k][1])),
                      k + 1)

\* const content = originalContent.replace(/\\x3c/g, '<') ... of the script.
UnescapeContent(originalContent) == UnescapeFrom(originalContent, 1)

RECURSIVE EmbeddedChunksFrom(_, _)
EmbeddedChunksFrom(content, i) ==
    IF i < StrLen(content)
    THEN <<Slice(content, i, i + 4096)>> \o EmbeddedChunksFrom(content, i + 4096)
    ELSE <<>>

RECURSIVE EmbeddedReduce(_)
EmbeddedReduce(level) ==
    IF Len(level) > 1
    THEN EmbeddedReduce([k \in 1..((Len(level) + 1) \div 2) |->
                            IF 2 * k <= Len(level)
                            THEN sha256(Cat(level[2 * k - 1], level[2 * k]))
                            ELSE level[2 * k - 1]])
    ELSE level

\* buildMerkleRoot of the embedded script.
EmbeddedBuildMerkleRoot(content) ==
    LET loop == EmbeddedChunksFrom(content, 0)
        chunks == IF Len(loop) = 0 THEN <<EmptyStr>> ELSE loop
    IN  EmbeddedReduce([k \in 1..Len(chunks) |-> sha256(chunks[k])])[1]

\* What the page shows: whether the script ran, the content and the root it
\* computed, and the verdict ("verifying" is the badge the page starts with).
Page(ran, content, root, verdict, clock) ==
    [ran |-> ran, content |-> content, root |-> root, verdict |-> verdict, clock |-> clock]

\* seal.timestamp <= Date.now(): false for NaN.
TimestampValid(ts, clock) == ~ts.nan /\ ts.n <= clock

\* The embedded script of the page html, run when Date.now() reads clock.
EmbeddedVerifier(html, clock) ==
    LET literal == ParseStringLiteral(html.originalContent)
        content == UnescapeContent(literal.v)
        computedHash == EmbeddedBuildMerkleRoot(content)
        sealData == SealData(html.seal.contentHash, html.seal.timestamp, html.seal.nonce)
    IN  IF literal.thrown THEN Page(FALSE, <<>>, <<>>, "verifying", clock)
        ELSE IF html.seal.kind # "object" \/ sealData.thrown
        THEN Page(TRUE, content, computedHash, "error", clock)
        ELSE IF /\ StrictEq(computedHash, html.seal.contentHash)
                /\ StrictEq(sha256(sealData.v), html.seal.sealHash)
                /\ TimestampValid(ToNumber(html.seal.timestamp), clock)
        THEN Page(TRUE, content, computedHash, "verified", clock)
        ELSE Page(TRUE, content, computedHash, "failed", clock)

---------------------------------------------------------------------------
(* Inputs *)

\* Clock reading in the initial state, the number of clock ticks of a run, and
\* the number of chunks of the longest content.
StartTime == 9
MaxTicks == 1
MaxChunks == 5

Times == StartTime..(StartTime + MaxTicks)

Fill(k) == Norm(<<Ch("a", k)>>)

\* s with the code unit at position p replaced by u.
Subst(s, p, u) == Cat(Slice(s, 0, p), Cat(Lit(u), Slice(s, p + 1, StrLen(s))))

Lengths == {0, 1, ChunkSize + 1} \cup {k * ChunkSize : k \in 1..MaxChunks}

\* An astral character (a surrogate pair) alone, and one whose two code units
\* lie on either side of the first chunk boundary.
AstralContents ==
    {Text(<<"HS", "LS1">>), Cat(Fill(ChunkSize - 1), Text(<<"HS", "LS1">>))}

\* Snapshots of pages: markup, a line break, backslashes, quotes, and the
\* text \x3c.
HtmlContents ==
    {Text(<<"<", "a", ">">>),
     Text(<<"a", "LF", "b">>),
     Text(<<"QUOT", "&", "APOS">>),
     Text(<<"a", "BACKSLASH">>),
     Text(<<"BACKSLASH", "BACKSLASH">>),
     Text(<<"BACKSLASH", "x", "3", "c">>),
     Text(<<"BACKSLASH", "QUOT">>)}

\* Contents that are sealed.
Contents == {Fill(k) : k \in Lengths} \cup AstralContents \cup HtmlContents

RECURSIVE Penultimate(_)
\* The level of two hashes that the last pass of buildMerkleRoot reduces.
Penultimate(level) == IF Len(level) <= 2 THEN level ELSE Penultimate(NextLevel(level))

\* The two hashes under the root of c, written one after the other.
UnderRoot(c) ==
    LET level == Penultimate(LeafHashes(c))
    IN  Cat(level[1], level[2])

\* c with one code unit replaced: the first one by b, or the last one by the
\* low surrogate LS2.
Substitutions(c) ==
    IF StrLen(c) = 0 THEN {}
    ELSE {Subst(c, 0, "b"), Subst(c, StrLen(c) - 1, "LS2")} \ {c}

\* The strings presented for verification against a seal of c.
Presented(c) ==
    {c, Cat(c, Lit("x"))} \cup Substitutions(c)
        \cup (IF Len(LeafHashes(c)) >= 2 THEN {UnderRoot(c)} ELSE {})

\* The arguments of a verification of a seal of c: the content, and whether
\* the digest primitive works during the call.
VerifyArgs(c) ==
    ({JsStr(d) : d \in Presented(c)} \cup {JsNull, JsNum(7), JsArr(c)}) \X {TRUE}
        \cup {<<JsStr(c), FALSE>>}

\* What crypto.getRandomValues may write into the 16 bytes.
Entropy ==
    {[i \in 1..NonceBytes |-> 0], [i \in 1..NonceBytes |-> IF i % 2 = 1 THEN 5 ELSE 250]}

SealFields == {"contentHash", "timestamp", "nonce", "sealHash"}

\* Another string of the same length: str with its last code unit changed.
OtherString(str) ==
    LET last == StrLen(str) - 1
    IN  IF Slice(str, last, last + 1) = Lit("0") THEN Subst(str, last, "1")
        ELSE Subst(str, last, "0")

\* The values a field holding v is replaced by.
Replacements(v) ==
    ({JsUndef, JsSym}
        \cup (IF v.t = "string"
              THEN {JsStr(OtherString(v.s)), JsArr(v.s), JsStr(sha256(Lit("x")))}
              ELSE {})
        \cup (IF v.t = "number"
              THEN {JsNum(k) : k \in StartTime..(StartTime + MaxTicks + 1)}
                   \cup {JsStr(ToDecimal(v.n))}
              ELSE {})) \ {v}

---------------------------------------------------------------------------
(* State *)

VARIABLES
    now,        \* Date.now()
    phase,      \* "fresh", "sealed", "tampered", then "verified" or "opened"
    content,    \* the content createTimeLockSeal was called with
    entropy,    \* the bytes crypto.getRandomValues wrote during that call
    sealedAt,   \* the clock reading during that call
    orig,       \* the seal createTimeLockSeal returned
    seal,       \* the seal as stored since: orig, or orig altered
    call,       \* the last call of verifyTimeLockSeal and its result
    page        \* what the evidence file shows once opened

\* The calls of the functions that read and write no state of their own, each
\* checked under a specification of its own.
VARIABLES
    chunked,    \* a call of chunkContent
    builds,     \* the calls of buildMerkleRoot in progress
    hashed,     \* a call of generateSimHash
    compared,   \* a call of hammingDistance
    clustered,  \* a call of findSimilarPairs and of clusterBySimilarity
    converted,  \* a call of simHashToHex and of hexToSimHash
    rated,      \* a call of distanceToSimilarity
    cached,     \* the hashCache of useSimilarity and the calls of getFingerprint
    evidenced   \* a call of verifyEvidence

sealVars == <<now, phase, content, entropy, sealedAt, orig, seal, call, page>>
laterCalls == <<converted, rated, cached, evidenced>>
otherCalls == <<chunked, builds, hashed, compared, clustered, laterCalls>>
vars == <<sealVars, otherCalls>>

\* No call made.
Idle == [phase |-> "idle"]

NoCall == [content |-> JsUndef, digestOk |-> TRUE, clock |-> 0, result |-> Result(FALSE, "")]
NoPage == Page(FALSE, <<>>, <<>>, "verifying", 0)

\* None of the later calls made.
NoLaterCall == converted = Idle /\ rated = Idle /\ cached = Idle /\ evidenced = Idle

\* Nothing sealed yet.
NoSeal ==
    /\ now = StartTime
    /\ phase = "fresh"
    /\ content = EmptyStr
    /\ entropy = <<>>
    /\ sealedAt = 0
    /\ orig = UndefinedSeal
    /\ seal = UndefinedSeal
    /\ call = NoCall
    /\ page = NoPage

Init ==
    /\ NoSeal
    /\ chunked = Idle
    /\ builds = Idle
    /\ hashed = Idle
    /\ compared = Idle
    /\ clustered = Idle
    /\ NoLaterCall

\* The clock advances.
Tick ==
    /\ phase \in {"fresh", "sealed", "tampered"}
    /\ now < StartTime + MaxTicks
    /\ now' = now + 1
    /\ UNCHANGED <<phase, content, entropy, sealedAt, orig, seal, call, page>>
    /\ UNCHANGED otherCalls

\* seal = await createTimeLockSeal(c)
Create(c, bytes) ==
    /\ phase = "fresh"
    /\ content' = c
    /\ entropy' = bytes
    /\ sealedAt' = now
    /\ orig' = createTimeLockSeal(c, now, bytes)
    /\ seal' = orig'
    /\ phase' = "sealed"
    /\ UNCHANGED <<now, call, page>>
    /\ UNCHANGED otherCalls

\* The stored seal has one field replaced by another value.
Tamper(f, v) ==
    /\ phase = "sealed"
    /\ seal' = [seal EXCEPT ![f] = v]
    /\ phase' = "tampered"
    /\ UNCHANGED <<now, content, entropy, sealedAt, orig, call, page>>
    /\ UNCHANGED otherCalls

\* The stored seal is given the timestamp t and the seal hash of its fields.
Forge(t) ==
    /\ phase = "sealed"
    /\ seal' = [seal EXCEPT !.timestamp = JsNum(t),
                            !.sealHash = JsStr(sha256(SealData(seal.contentHash, JsNum(t), seal.nonce).v))]
    /\ phase' = "tampered"
    /\ UNCHANGED <<now, content, entropy, sealedAt, orig, call, page>>
    /\ UNCHANGED otherCalls

\* The stored seal is lost: null or undefined is passed instead.
Lose(s) ==
    /\ phase = "sealed"
    /\ seal' = s
    /\ phase' = "tampered"
    /\ UNCHANGED <<now, content, entropy, sealedAt, orig, call, page>>
    /\ UNCHANGED otherCalls

\* result = await verifyTimeLockSeal(c, seal)
Verify(c, digestOk) ==
    /\ phase \in {"sealed", "tampered"}
    /\ call' = [content |-> c, digestOk |-> digestOk, clock |-> now,
                result |-> verifyTimeLockSeal(c, seal, now, digestOk)]
    /\ phase' = "verified"
    /\ UNCHANGED <<now, content, entropy, sealedAt, orig, seal, page>>
    /\ UNCHANGED otherCalls

\* The evidence file of the content and the stored seal is generated and
\* opened in a browser.  (A timestamp that is a string is left out: how Date
\* parses it is implementation-defined.)
OpenEvidence ==
    LET html == generateEvidenceHTML([contentHtml |-> content, seal |-> seal])
    IN  /\ phase \in {"sealed", "tampered"}
        /\ seal.timestamp.t \notin {"string", "array"}
        /\ ~html.thrown
        /\ page' = EmbeddedVerifier(html, now)
        /\ phase' = "opened"
        /\ UNCHANGED <<now, content, entropy, sealedAt, orig, seal, call>>
        /\ UNCHANGED otherCalls

Next ==
    \/ Tick
    \/ \E c \in Contents, bytes \in Entropy : Create(c, bytes)
    \/ \E f \in SealFields : \E v \in Replacements(seal[f]) : Tamper(f, v)
    \/ \E t \in StartTime..(StartTime + MaxTicks + 1) : Forge(t)
    \/ \E s \in {NullSeal, UndefinedSeal} : Lose(s)
    \/ \E a \in VerifyArgs(content) : Verify(a[1], a[2])
    \/ OpenEvidence

Spec == Init /\ [][Next]_vars

---------------------------------------------------------------------------
(* Claims *)

Verified == phase = "verified"

\* The last verification was given a string.
GivenString == call.content.t = "string"

\* The last verification was given the stored seal unaltered, and the digest
\* primitive worked.
Untouched == seal = orig /\ call.digestOk

\* c and d differ by a single character: one substituted, or one appended.
SingleEdit(c, d) == d \in (Substitutions(c) \cup {Cat(c, Lit("x"))})

\* C1: for a seal created from content c, the Merkle root of a string c' is the
\* seal's contentHash exactly when c' = c, and verifyTimeLockSeal(c', seal)
\* accepts no string other than c.
C1_RootIdentifiesContent ==
    (Verified /\ GivenString /\ Untouched) =>
        /\ (buildMerkleRoot(call.content.s) = orig.contentHash.s) <=> (call.content.s = content)
        /\ call.result.valid => call.content.s = content

\* C2: verifyTimeLockSeal(c, createTimeLockSeal(c)) returns valid = true when
\* it runs after the creation, the same millisecond included (the digest
\* primitive working).
C2_SealRoundTrip ==
    (Verified /\ Untouched /\ call.content = JsStr(content)) =>
        call.result = Result(TRUE, "")

C2_Witness ==
    /\ Verified /\ Untouched /\ call.content = JsStr(content)
    /\ call.clock = sealedAt
    /\ StrLen(content) > ChunkSize
    /\ call.result.valid

\* C3: for c and c' that differ by a single character, the Merkle roots differ
\* and verifyTimeLockSeal(c', createTimeLockSeal(c)) returns valid = false with
\* reason 'Content has been modified'.
C3_SingleCharacterDetected ==
    (Verified /\ GivenString /\ Untouched /\ SingleEdit(content, call.content.s)) =>
        /\ buildMerkleRoot(call.content.s) # buildMerkleRoot(content)
        /\ call.result = Result(FALSE, "Content has been modified")

\* The stored seal is the created one with field f, and only f, replaced.
OnlyReplaced(f) ==
    /\ seal.kind = "object"
    /\ seal[f] # orig[f]
    /\ \A g \in SealFields \ {f} : seal[g] = orig[g]

\* C4 as claimed: replacing nonce, sealHash or contentHash of the seal of c by
\* any different value makes verifyTimeLockSeal(c, seal) return valid = false.
C4_AnyReplacementDetected ==
    (Verified /\ call.content = JsStr(content)
        /\ \E f \in {"nonce", "sealHash", "contentHash"} : OnlyReplaced(f)) =>
        ~call.result.valid

\* A value that is not the string str and is converted to str.
SameText(v, str) == ~ToStr(v).thrown /\ ToStr(v).v = str

\* C4 for the replacements that are detected: replacing sealHash or
\* contentHash by any different value, or nonce by any value that is not converted to the string of the original
\* nonce (any different string is such), makes verifyTimeLockSeal(c, seal)
\* return valid = false; a nonce replaced by a value that is converted to the
\* original string (the array [nonce]) is accepted as before.
C4_ReplacementDetected ==
    (Verified /\ call.content = JsStr(content)) =>
        /\ (OnlyReplaced("sealHash") \/ OnlyReplaced("contentHash")) => ~call.result.valid
        /\ (OnlyReplaced("nonce") /\ ~SameText(seal.nonce, orig.nonce.s)) => ~call.result.valid
        /\ (OnlyReplaced("nonce") /\ SameText(seal.nonce, orig.nonce.s) /\ call.digestOk)
               => call.result.valid

C4_Witness ==
    /\ Verified /\ call.content = JsStr(content) /\ call.digestOk
    /\ OnlyReplaced("nonce")
    /\ seal.nonce.t = "string"
    /\ call.result = Result(FALSE, "Seal has been tampered with")

\* The seal's contentHash is the root of the content given, and its sealHash is
\* the digest of its own fields.
Consistent ==
    /\ seal.kind = "object"
    /\ GivenString /\ call.digestOk
    /\ seal.contentHash = JsStr(buildMerkleRoot(call.content.s))
    /\ seal.timestamp.t = "number"
    /\ seal.nonce.t = "string"
    /\ seal.sealHash =
           JsStr(sha256(Cat(seal.contentHash.s,
                        Cat(Lit(":"), Cat(ToDecimal(seal.timestamp.n),
                        Cat(Lit(":"), seal.nonce.s))))))

\* C5: a seal whose timestamp is later than the clock reading at verification
\* fails with reason 'Timestamp is in the future' even when its contentHash
\* matches the content and its sealHash is consistent with its fields; a
\* timestamp equal to the clock reading is accepted.
C5_FutureTimestampRejected ==
    (Verified /\ Consistent) =>
        /\ seal.timestamp.n > call.clock
              => call.result = Result(FALSE, "Timestamp is in the future")
        /\ seal.timestamp.n = call.clock => call.result = Result(TRUE, "")

C5_Witness ==
    /\ Verified /\ Consistent
    /\ seal.timestamp.n > call.clock
    /\ seal.timestamp # orig.timestamp
    /\ call.result.reason = "Timestamp is in the future"

Reasons ==
    {"Content has been modified", "Seal has been tampered with",
     "Timestamp is in the future", "Verification error"}

\* C6: verifyTimeLockSeal never throws: for every content argument and every
\* seal argument (null, undefined, missing or wrongly typed fields) and for a
\* failing digest primitive it resolves to a {valid, reason} result.
C6_NeverThrows ==
    Verified =>
        /\ ~call.result.thrown
        /\ call.result.valid \in BOOLEAN
        /\ call.result.valid => call.result.reason = ""
        /\ ~call.result.valid => call.result.reason \in Reasons

C6_Witness ==
    /\ Verified
    /\ \/ call.content.t # "string"
       \/ seal.kind # "object"
       \/ ~call.digestOk
       \/ \E f \in SealFields : seal[f].t \in {"undefined", "symbol"}
    /\ VerifyTry(call.content, seal, call.clock, call.digestOk).thrown
    /\ call.result = Result(FALSE, "Verification error")

\* A required field of the seal is missing.
Missing(f) == seal.kind = "object" /\ seal[f] = JsUndef

\* C7 as claimed: a malformed seal (a required field such as contentHash,
\* nonce or sealHash missing) gives {valid: false, reason: 'Verification error'}.
C7_MalformedIsVerificationError ==
    (Verified /\ call.content = JsStr(content) /\ call.digestOk
        /\ (seal.kind # "object" \/ \E f \in SealFields : Missing(f))) =>
        call.result = Result(FALSE, "Verification error")

\* C7 as amended: a seal that is null or undefined, or one with a symbol in a
\* field that is converted to a string, gives {valid: false, reason:
\* 'Verification error'}; a seal object with a required field missing gives
\* valid = false with the reason of the check that reads the field:
\* 'Content has been modified' for contentHash, 'Seal has been tampered with'
\* for timestamp, nonce and sealHash.
C7_MalformedSealRejected ==
    (Verified /\ call.content = JsStr(content) /\ call.digestOk) =>
        /\ seal.kind # "object" => call.result = Result(FALSE, "Verification error")
        /\ (\E f \in {"timestamp", "nonce"} : OnlyReplaced(f) /\ seal[f] = JsSym)
              => call.result = Result(FALSE, "Verification error")
        /\ (OnlyReplaced("contentHash") /\ Missing("contentHash"))
              => call.result = Result(FALSE, "Content has been modified")
        /\ (\E f \in {"timestamp", "nonce", "sealHash"} : OnlyReplaced(f) /\ Missing(f))
              => call.result = Result(FALSE, "Seal has been tampered with")

C7_Witness ==
    /\ Verified /\ call.content = JsStr(content) /\ call.digestOk
    /\ OnlyReplaced("nonce") /\ Missing("nonce")
    /\ call.result = Result(FALSE, "Seal has been tampered with")

RECURSIVE AllHex(_)
\* Every character of s is a lowercase hex digit.
AllHex(s) ==
    s = <<>> \/ (/\ ~IsDigestRun(Head(s))
                 /\ Head(s).c \in {HexDigits[i] : i \in 1..16}
                 /\ AllHex(Tail(s)))

\* C8: every seal returned by createTimeLockSeal(c) has contentHash =
\* buildMerkleRoot(c), sealHash = SHA-256(contentHash + ':' + decimal timestamp
\* + ':' + nonce), a nonce of 32 lowercase hex characters, the clock reading
\* taken during creation as timestamp, and version 1.
C8_SealWellFormed ==
    phase # "fresh" =>
        /\ orig.kind = "object"
        /\ orig.contentHash = JsStr(buildMerkleRoot(content))
        /\ orig.timestamp = JsNum(sealedAt)
        /\ orig.nonce.t = "string"
        /\ StrLen(orig.nonce.s) = 2 * NonceBytes
        /\ AllHex(orig.nonce.s)
        /\ orig.sealHash =
               JsStr(sha256(Cat(buildMerkleRoot(content),
                            Cat(Lit(":"), Cat(ToDecimal(sealedAt),
                            Cat(Lit(":"), orig.nonce.s))))))
        /\ orig.version = JsNum(1)

C8_Witness ==
    /\ phase = "sealed"
    /\ \E i \in 1..NonceBytes : entropy[i] < 16
    /\ sealedAt > StartTime
    /\ Len(LeafHashes(content)) > 2
    /\ orig.sealHash.t = "string"

\* C9: the verifier script embedded by generateEvidenceHTML reconstructs a
\* content equal to evidence.contentHtml, computes the Merkle root
\* buildMerkleRoot computes, and shows 'verified' exactly when
\* verifyTimeLockSeal(evidence.contentHtml, evidence.seal) returns valid = true
\* at the same clock reading.
C9_EmbeddedVerifierAgrees ==
    phase = "opened" =>
        /\ page.ran
        /\ page.content = content
        /\ page.root = buildMerkleRoot(content)
        /\ (page.verdict = "verified")
              <=> verifyTimeLockSeal(JsStr(content), seal, page.clock, TRUE).valid

RECURSIVE PowerOfTwoBelow(_, _)
\* The largest power of two below k >= 2, from p on.
PowerOfTwoBelow(k, p) == IF 2 * p < k THEN PowerOfTwoBelow(k, 2 * p) ELSE p

\* The number of chunks of c, and the digest of its k-th chunk.
ReferenceLeafCount(c) ==
    IF StrLen(c) = 0 THEN 1 ELSE (StrLen(c) + ChunkSize - 1) \div ChunkSize
ReferenceLeaf(c, k) == sha256(Slice(c, (k - 1) * ChunkSize, k * ChunkSize))

RECURSIVE ReferenceNode(_, _, _)
\* The hash over the leaves lo..hi of c: a leaf alone is itself; otherwise the
\* leaves split at the largest power of two below their number, which is where
\* pairing level by level with the odd node promoted splits them.
ReferenceNode(c, lo, hi) ==
    IF lo = hi THEN ReferenceLeaf(c, lo)
    ELSE LET k == PowerOfTwoBelow(hi - lo + 1, 1)
         IN  sha256(Cat(ReferenceNode(c, lo, lo + k - 1), ReferenceNode(c, lo + k, hi)))

\* C10: buildMerkleRoot(content) is the reference Merkle root: the leaves are
\* the digests of the chunks in order, adjacent pairs are hashed as the
\* concatenation left + right with the last node of an odd level promoted
\* unchanged, and for content of at most 4096 characters the root is
\* SHA-256(content).
C10_ReferenceRoot ==
    phase # "fresh" =>
        /\ Len(LeafHashes(content)) = ReferenceLeafCount(content)
        /\ \A k \in 1..ReferenceLeafCount(content) :
               LeafHashes(content)[k] = ReferenceLeaf(content, k)
        /\ orig.contentHash = JsStr(ReferenceNode(content, 1, ReferenceLeafCount(content)))
        /\ StrLen(content) <= ChunkSize => orig.contentHash = JsStr(sha256(content))

C10_Witness ==
    /\ phase = "sealed"
    /\ ReferenceLeafCount(content) >= 5
    /\ orig.contentHash = JsStr(ReferenceNode(content, 1, ReferenceLeafCount(content)))

---------------------------------------------------------------------------
(* chunkContent called on its own, src/utils/merkleTree.ts:36-42 *)

\* The most chunks a content is cut into.
MaxPieces == 4

ChunkSizes == {1, 2, 3, ChunkSize}

\* Lengths around the multiples of a chunk size, and the length that leaves
\* 904 characters after a chunk of 4096.
ChunkLengths(size) ==
    {k * size + r : k \in 0..(MaxPieces - 1), r \in ({0, 1, size - 1, 904} \cap 0..(size - 1))}
        \cup {MaxPieces * size}

\* Contents of a length: one character repeated, and the same with another
\* character first or last.
ContentsOfLength(len) ==
    IF len = 0 THEN {EmptyStr}
    ELSE {Fill(len), Cat(Fill(len - 1), Lit("b")), Cat(Lit("b"), Fill(len - 1))}

ChunkInputsOfSize(size) ==
    {[phase |-> "ready", content |-> c, size |-> size, chunks |-> <<>>] :
        c \in UNION {ContentsOfLength(len) : len \in ChunkLengths(size)}}

ChunkInputs == UNION {ChunkInputsOfSize(size) : size \in ChunkSizes}

otherThanChunked == <<sealVars, builds, hashed, compared, clustered, laterCalls>>

InitChunk ==
    /\ NoSeal
    /\ chunked \in ChunkInputs
    /\ builds = Idle /\ hashed = Idle /\ compared = Idle /\ clustered = Idle
    /\ NoLaterCall

\* chunks = chunkContent(content, size)
ChunkContent ==
    /\ chunked.phase = "ready"
    /\ chunked' = [chunked EXCEPT !.phase = "done",
                                  !.chunks = chunkContent(chunked.content, chunked.size)]
    /\ UNCHANGED otherThanChunked

NextChunk == ChunkContent

SpecChunk == InitChunk /\ [][NextChunk]_vars

RECURSIVE Concat(_)
\* The concatenation of a sequence of strings.
Concat(strs) == IF strs = <<>> THEN EmptyStr ELSE Cat(Head(strs), Concat(Tail(strs)))

\* C11: chunkContent(content, size), size >= 1, returns substrings whose
\* concatenation in order is content; every chunk but the last has exactly size
\* characters and the last has between 1 and size; there are ceil(length/size)
\* chunks for non-empty content, and the result is [''] for empty content.
C11_ChunksTileContent ==
    chunked.phase = "done" =>
        LET len == StrLen(chunked.content)
            size == chunked.size
            chunks == chunked.chunks
        IN  /\ Concat(chunks) = chunked.content
            /\ Len(chunks) >= 1
            /\ len = 0 => chunks = <<EmptyStr>>
            /\ len > 0 =>
                /\ Len(chunks) = (len + size - 1) \div size
                /\ \A k \in 1..(Len(chunks) - 1) : StrLen(chunks[k]) = size
                /\ StrLen(chunks[Len(chunks)]) \in 1..size
                /\ StrLen(chunks[Len(chunks)]) = len - (Len(chunks) - 1) * size

C11_Witness ==
    /\ chunked.phase = "done"
    /\ chunked.size = ChunkSize
    /\ StrLen(chunked.content) = 5000
    /\ Len(chunked.chunks) = 2
    /\ StrLen(chunked.chunks[1]) = 4096
    /\ StrLen(chunked.chunks[2]) = 904

---------------------------------------------------------------------------
(* buildMerkleRoot as it runs: the leaf digests are issued together and     *)
(* complete in any order, every await lets other calls run,                  *)
(* src/utils/merkleTree.ts:47-71                                             *)

\* The most chunks of a document, and the calls in progress at a time.
MaxLeaves == 4
Callers == {1, 2}

RECURSIVE Doc(_)
\* The document of one full chunk of each of the units.
Doc(units) ==
    IF units = <<>> THEN EmptyStr ELSE Cat(Norm(<<Ch(Head(units), ChunkSize)>>), Doc(Tail(units)))

\* Documents of 1 to MaxLeaves chunks, no two chunks of a document alike, and
\* the document whose single chunk is empty.
Docs ==
    {Doc(SubSeq(<<"a", "b", "c", "d", "e", "f">>, 1, n)) : n \in 1..MaxLeaves} \cup {EmptyStr}

\* A call not started, and the digest not yet delivered.
NotStarted ==
    [pc |-> "start", content |-> EmptyStr, chunks |-> <<>>, pending |-> {}, overtaken |-> FALSE,
     hashes |-> <<>>, level |-> <<>>, nextLevel |-> <<>>, i |-> 0, passes |-> 0,
     root |-> EmptyStr]
Unsettled == EmptyStr

\* Promise.all: the value of the k-th promise is the k-th element of the
\* result, whenever it settles.  (InArrivalOrder: the first free element.)
SettleInArrivalOrder(hashes, k, h) ==
    LET free == CHOOSE j \in 1..Len(hashes) :
                    hashes[j] = Unsettled /\ \A m \in 1..(j - 1) : hashes[m] # Unsettled
    IN  [hashes EXCEPT ![free] = h]
Settle(hashes, k, h) == [hashes EXCEPT ![k] = h]

\* nextLevel.push(level[i]) of the odd node.
OddNodeDropped(nextLevel, node) == nextLevel
OddNode(nextLevel, node) == Append(nextLevel, node)

RECURSIVE RunToAwait(_)
\* The while and for loops from the state b up to the next await of a digest
\* (pc "pair"), or to the return (pc "done").  i counts from 0 as in the code,
\* passes counts the passes of the while loop completed.
RunToAwait(b) ==
    IF b.pc = "while"
    THEN IF Len(b.level) > 1
         THEN RunToAwait([b EXCEPT !.pc = "for", !.nextLevel = <<>>, !.i = 0])
         ELSE [b EXCEPT !.pc = "done", !.root = b.level[1]]
    ELSE IF b.i < Len(b.level)
    THEN IF b.i + 1 < Len(b.level)
         THEN [b EXCEPT !.pc = "pair"]
         ELSE RunToAwait([b EXCEPT !.nextLevel = OddNode(@, b.level[b.i + 1]), !.i = @ + 2])
    ELSE RunToAwait([b EXCEPT !.pc = "while", !.level = b.nextLevel, !.passes = @ + 1])

otherThanBuilds == <<sealVars, chunked, hashed, compared, clustered, laterCalls>>

InitBuild ==
    /\ NoSeal
    /\ builds = [p \in Callers |-> NotStarted]
    /\ chunked = Idle /\ hashed = Idle /\ compared = Idle /\ clustered = Idle
    /\ NoLaterCall

\* buildMerkleRoot(c) is called: the chunks are cut and the digest of each is
\* requested, up to await Promise.all.
StartBuild(p, c) ==
    LET chunks == chunkContent(c, ChunkSize)
    IN  /\ builds[p].pc = "start"
        /\ builds' = [builds EXCEPT ![p] =
               [@ EXCEPT !.pc = "leaves", !.content = c, !.chunks = chunks,
                         !.pending = 1..Len(chunks),
                         !.hashes = [k \in 1..Len(chunks) |-> Unsettled]]]
        /\ UNCHANGED otherThanBuilds

\* crypto.subtle.digest delivers the digest of chunk k, one of those pending
\* (overtaken: it did so before the digest of an earlier chunk).
LeafDigest(p, k) ==
    /\ builds[p].pc = "leaves"
    /\ k \in builds[p].pending
    /\ builds' = [builds EXCEPT ![p] =
           [@ EXCEPT !.pending = @ \ {k},
                     !.overtaken = @ \/ \E j \in builds[p].pending : j < k,
                     !.hashes = Settle(@, k, sha256(builds[p].chunks[k]))]]
    /\ UNCHANGED otherThanBuilds

\* Promise.all settles: level is the leaf hashes, and the call runs on to its
\* first pair, or returns.
Gather(p) ==
    /\ builds[p].pc = "leaves"
    /\ builds[p].pending = {}
    /\ builds' = [builds EXCEPT ![p] =
           RunToAwait([@ EXCEPT !.pc = "while", !.level = builds[p].hashes])]
    /\ UNCHANGED otherThanBuilds

\* The digest of level[i] + level[i + 1] is delivered, and the call runs on to
\* its next pair, or returns.
PairDigest(p) ==
    /\ builds[p].pc = "pair"
    /\ \E b \in {builds[p]} :
         \E digest \in {sha256(Cat(b.level[b.i + 1], b.level[b.i + 2]))} :
            builds' = [builds EXCEPT ![p] =
                RunToAwait([b EXCEPT !.pc = "for",
                                     !.nextLevel = Append(@, digest),
                                     !.i = @ + 2])]
    /\ UNCHANGED otherThanBuilds

NextBuild ==
    \/ \E p \in Callers, c \in Docs : StartBuild(p, c)
    \/ \E p \in Callers : \E k \in 1..MaxLeaves : LeafDigest(p, k)
    \/ \E p \in Callers : Gather(p)
    \/ \E p \in Callers : PairDigest(p)

SpecBuild == InitBuild /\ [][NextBuild]_vars

\* C12: buildMerkleRoot(c) yields the same root on every call for the same c,
\* whatever order the leaf digests complete in and however the calls
\* interleave; and a level is reduced only once every hash of the level before
\* is there: while a pair is hashed no leaf digest is pending, the level has a
\* hash at every position, and nextLevel holds the pairs reduced so far.
C12_RootIndependentOfSchedule ==
    /\ \A p, q \in Callers :
           (builds[p].pc = "done" /\ builds[q].pc = "done"
               /\ builds[p].content = builds[q].content) => builds[p].root = builds[q].root
    /\ \A p \in Callers :
           LET b == builds[p]
           IN  /\ b.pc = "done" => b.root = buildMerkleRoot(b.content)
               /\ b.pc \in {"pair", "done"} =>
                    /\ b.pending = {}
                    /\ \A k \in 1..Len(b.level) : b.level[k] # Unsettled
               /\ b.pc = "pair" =>
                    b.nextLevel = SubSeq(NextLevel(b.level), 1, b.i \div 2)

C12_Witness ==
    /\ builds[1].pc = "done" /\ builds[2].pc = "done"
    /\ builds[1].content = builds[2].content
    /\ Len(builds[1].chunks) >= 3
    /\ builds[1].overtaken /\ ~builds[2].overtaken
    /\ builds[1].root = builds[2].root


\* A step of the call p that is in progress.
Proceed(p) == (\E k \in 1..MaxLeaves : LeafDigest(p, k)) \/ Gather(p) \/ PairDigest(p)

\* Every digest requested is delivered, and a call whose promise has settled
\* runs on.
SpecBuildFair == SpecBuild /\ \A p \in Callers : WF_vars(Proceed(p))

\* The least k with 2^k >= n.
CeilLog2(n) == CHOOSE k \in 0..n : 2 ^ k >= n /\ \A j \in 0..(k - 1) : 2 ^ j < n

\* C26: buildMerkleRoot terminates: each pass of the while loop turns a level
\* of n > 1 hashes into one of ceil(n/2), which is fewer, and a call returns,
\* with a level of one hash, after ceil(log2(number of chunks)) passes (none
\* for one chunk).
C26_BuildTerminates ==
    /\ [](\A p \in Callers :
              builds[p].pc = "done" =>
                  /\ Len(builds[p].level) = 1
                  /\ builds[p].passes = CeilLog2(Len(builds[p].chunks)))
    /\ [][\A p \in Callers :
              (builds[p].level # <<>> /\ builds'[p].level # builds[p].level) =>
                  /\ Len(builds[p].level) > 1
                  /\ Len(builds'[p].level) = (Len(builds[p].level) + 1) \div 2
                  /\ Len(builds'[p].level) < Len(builds[p].level)
                  /\ builds'[p].passes = builds[p].passes + 1]_vars
    /\ \A p \in Callers : (builds[p].pc = "leaves") ~> (builds[p].pc = "done")

C26_Witness ==
    \E p \in Callers :
        /\ builds[p].pc = "done"
        /\ Len(builds[p].chunks) = 3
        /\ builds[p].passes = 2

---------------------------------------------------------------------------
(* SimHash, src/unnamed/part_001                                            *)
(*                                                                         *)
(* NUMBERS.  A 32-bit word (a half of a SimHash64, an operand or result of *)
(* a bitwise operator) is the record [hi, lo] of its two 16-bit halves.    *)
(* Read as a uint32 it is hi * 2^16 + lo; read as an int32 it is negative  *)
(* when hi >= 2^15.  Text here is a tuple of UTF-16 code units.            *)

Half == 65536

Word(hi, lo) == [hi |-> hi, lo |-> lo]

\* The word of a number 0 <= k < 2^31.
WordOf(k) == Word(k \div Half, k % Half)

\* Bit i (0..31) of a word: (w >> i) & 1.
Bit(w, i) == IF i < 16 THEN (w.lo \div (2 ^ i)) % 2 ELSE (w.hi \div (2 ^ (i - 16))) % 2

\* The ToInt32 reading of a word is negative.
Negative(w) == w.hi >= Half \div 2

RECURSIVE Xor16(_, _)
\* a ^ b for 0 <= a, b < 2^16.
Xor16(a, b) ==
    IF a = 0 THEN b
    ELSE IF b = 0 THEN a
    ELSE 2 * Xor16(a \div 2, b \div 2) + ((a + b) % 2)

RECURSIVE And16(_, _)
\* a & b for 0 <= a, b < 2^16.
And16(a, b) ==
    IF a = 0 \/ b = 0 THEN 0
    ELSE 2 * And16(a \div 2, b \div 2) + ((a % 2) * (b % 2))

\* a ^ b and a & b: the int32 results, as words.
Xor32(a, b) == Word(Xor16(a.hi, b.hi), Xor16(a.lo, b.lo))
And32(a, b) == Word(And16(a.hi, b.hi), And16(a.lo, b.lo))

\* charCodeAt of the code units that occur in the texts.
CharCode ==
    [u \in {"a", "b", "c", "d", "e", "f", "g", "h", "i", "j", "k", "l", "m", "n", "o",
            "p", "q", "r", "s", "t", "u", "v", "w", "x", "y", "z"} |->
        CHOOSE k \in 97..122 :
            <<"a", "b", "c", "d", "e", "f", "g", "h", "i", "j", "k", "l", "m", "n", "o",
              "p", "q", "r", "s", "t", "u", "v", "w", "x", "y", "z">>[k - 96] = u]
    @@ [u \in {"0", "1", "2", "3", "4", "5", "6", "7", "8", "9"} |-> 48 + DigitValue(u)]
    @@ ("_" :> 95)

FNV_PRIME_LOW == 435
FNV_PRIME_HIGH == 256
FNV_OFFSET_LOW == Word(25272, 8565)
FNV_OFFSET_HIGH == Word(52210, 40164)

\* One pass of the loop of fnv1a64 for the character code char:
\*   low ^= char                      an int32, negative when bit 31 is set
\*   temp = low * FNV_PRIME_LOW       exact
\*   low = temp >>> 0                 temp modulo 2^32
\*   high = (high * FNV_PRIME_LOW + high * FNV_PRIME_HIGH
\*           + Math.floor(temp / 0x100000000)) >>> 0
\* With u the uint32 reading of low after the xor, temp is u * 435 when low is
\* not negative and (u - 2^32) * 435 when it is, so floor(temp / 2^32) is the
\* carry of u * 435, less 435 when low is negative.
FnvStep(h, char) ==
    LET x == Word(h.low.hi, Xor16(h.low.lo, char))
        p0 == x.lo * FNV_PRIME_LOW
        p1 == x.hi * FNV_PRIME_LOW + (p0 \div Half)
        carry == (p1 \div Half) - (IF Negative(x) THEN FNV_PRIME_LOW ELSE 0)
        q0 == h.high.lo * (FNV_PRIME_LOW + FNV_PRIME_HIGH) + carry
        q1 == h.high.hi * (FNV_PRIME_LOW + FNV_PRIME_HIGH) + (q0 \div Half)
    IN  [high |-> Word(q1 % Half, q0 % Half), low |-> Word(p1 % Half, p0 % Half)]

RECURSIVE FnvFrom(_, _)
FnvFrom(h, str) ==
    IF str = <<>> THEN h ELSE FnvFrom(FnvStep(h, CharCode[Head(str)]), Tail(str))

\* fnv1a64(str): { high, low }.
fnv1a64(str) == FnvFrom([high |-> FNV_OFFSET_HIGH, low |-> FNV_OFFSET_LOW], str)

\* The 64-bit FNV-1a hash, as the four 16-bit limbs <<l0, l1, l2, l3>> of the
\* hash, l0 the lowest: the offset basis 0xcbf29ce484222325, and for each
\* character hash = ((hash xor char) * 0x100000001b3) mod 2^64, the prime being
\* 2^40 + 0x1b3.
ReferenceFnvBasis == <<8997, 33826, 40164, 52210>>

ReferenceFnvStep(l, char) ==
    LET x0 == Xor16(l[1], char)
        t0 == x0 * 435
        t1 == l[2] * 435 + (t0 \div Half)
        t2 == l[3] * 435 + (t1 \div Half) + ((x0 * 256) % Half)
        t3 == l[4] * 435 + (t2 \div Half) + ((x0 * 256) \div Half) + ((l[2] * 256) % Half)
    IN  <<t0 % Half, t1 % Half, t2 % Half, t3 % Half>>

RECURSIVE ReferenceFnvFrom(_, _)
ReferenceFnvFrom(l, str) ==
    IF str = <<>> THEN l ELSE ReferenceFnvFrom(ReferenceFnvStep(l, CharCode[Head(str)]), Tail(str))

\* The reference hash of a token as its high and low 32-bit halves.
ReferenceFnv(str) ==
    LET l == ReferenceFnvFrom(ReferenceFnvBasis, str)
    IN  [high |-> Word(l[4], l[3]), low |-> Word(l[2], l[1])]

STOP_WORDS ==
    {<<"a">>, <<"a", "n">>, <<"a", "n", "d">>, <<"a", "r", "e">>,
     <<"a", "s">>, <<"a", "t">>, <<"b", "e">>, <<"b", "y">>,
     <<"f", "o", "r">>, <<"f", "r", "o", "m">>, <<"h", "a", "s">>,
     <<"h", "e">>, <<"i", "n">>, <<"i", "s">>, <<"i", "t">>,
     <<"i", "t", "s">>, <<"o", "f">>, <<"o", "n">>, <<"o", "r">>,
     <<"t", "h", "a", "t">>, <<"t", "h", "e">>, <<"t", "o">>,
     <<"w", "a", "s">>, <<"w", "e", "r", "e">>, <<"w", "i", "l", "l">>,
     <<"w", "i", "t", "h">>, <<"y", "o", "u">>, <<"y", "o", "u", "r">>,
     <<"t", "h", "i", "s">>, <<"t", "h", "e", "y">>, <<"w", "e">>,
     <<"o", "u", "r">>, <<"h", "a", "v", "e">>, <<"b", "e", "e", "n">>,
     <<"n", "o", "t">>, <<"b", "u", "t">>, <<"w", "h", "a", "t">>,
     <<"a", "l", "l">>, <<"c", "a", "n">>, <<"h", "a", "d">>,
     <<"h", "e", "r">>, <<"t", "h", "e", "r", "e">>,
     <<"w", "h", "i", "c", "h">>, <<"t", "h", "e", "i", "r">>, <<"i", "f">>,
     <<"e", "a", "c", "h">>, <<"a", "b", "o", "u", "t">>, <<"h", "o", "w">>,
     <<"u", "p">>, <<"o", "u", "t">>, <<"t", "h", "e", "m">>,
     <<"t", "h", "e", "n">>, <<"s", "h", "e">>, <<"m", "a", "n", "y">>,
     <<"s", "o", "m", "e">>, <<"s", "o">>, <<"t", "h", "e", "s", "e">>,
     <<"w", "o", "u", "l", "d">>, <<"o", "t", "h", "e", "r">>,
     <<"i", "n", "t", "o">>, <<"w", "h", "o">>, <<"n", "o">>,
     <<"m", "o", "r", "e">>}

LowerCaseLetters ==
    <<"a", "b", "c", "d", "e", "f", "g", "h", "i", "j", "k", "l", "m", "n", "o",
      "p", "q", "r", "s", "t", "u", "v", "w", "x", "y", "z">>
UpperCaseLetters ==
    <<"A", "B", "C", "D", "E", "F", "G", "H", "I", "J", "K", "L", "M", "N", "O",
      "P", "Q", "R", "S", "T", "U", "V", "W", "X", "Y", "Z">>

\* toLowerCase of a code unit: an ASCII capital becomes its small letter.
ToLowerCase(u) ==
    IF \E k \in 1..26 : UpperCaseLetters[k] = u
    THEN LowerCaseLetters[CHOOSE k \in 1..26 : UpperCaseLetters[k] = u]
    ELSE u

\* \s, \d and \w of a regular expression.
IsSpace(u) == u \in {" ", "TAB", "LF"}
IsDigit(u) == \E k \in 1..10 : DecimalDigits[k] = u
IsWordChar(u) ==
    \/ \E k \in 1..26 : LowerCaseLetters[k] = u \/ UpperCaseLetters[k] = u
    \/ IsDigit(u)
    \/ u = "_"

\* text.toLowerCase().replace(/[^\w\s]/g, ' ')
Normalized(text) ==
    [k \in 1..Len(text) |->
        LET u == ToLowerCase(text[k])
        IN  IF IsWordChar(u) \/ IsSpace(u) THEN u ELSE " "]

RECURSIVE SplitFrom(_, _, _)
\* str.split(/\s+/) from position k on, piece being the piece read so far:
\* every run of white space separates two pieces, the empty pieces before a
\* leading run and after a trailing one included.
SplitFrom(str, k, piece) ==
    IF k > Len(str) THEN <<piece>>
    ELSE IF IsSpace(str[k])
    THEN IF k > 1 /\ IsSpace(str[k - 1]) THEN SplitFrom(str, k + 1, piece)
         ELSE <<piece>> \o SplitFrom(str, k + 1, <<>>)
    ELSE SplitFrom(str, k + 1, Append(piece, str[k]))

Split(str) == SplitFrom(str, 1, <<>>)

\* The filter of tokenize.
KeptAlsoNumbers(word) ==
    /\ Len(word) >= 2
    /\ Len(word) <= 30
    /\ word \notin STOP_WORDS
Kept(word) ==
    /\ Len(word) >= 2
    /\ Len(word) <= 30
    /\ word \notin STOP_WORDS
    /\ ~(\A k \in 1..Len(word) : IsDigit(word[k]))

\* tokenize(text)
tokenize(text) == SelectSeq(Split(Normalized(text)), Kept)

RECURSIVE TFFrom(_, _)
\* The loop of calculateTF: tf as the sequence of the Map's entries
\* <<token, count>>, in insertion order.
TFFrom(tf, tokens) ==
    IF tokens = <<>> THEN tf
    ELSE LET token == Head(tokens)
             at == {k \in 1..Len(tf) : tf[k][1] = token}
         IN  IF at = {} THEN TFFrom(Append(tf, <<token, 1>>), Tail(tokens))
             ELSE LET k == CHOOSE j \in at : TRUE
                  IN  TFFrom([tf EXCEPT ![k] = <<token, tf[k][2] + 1>>], Tail(tokens))

calculateTFLastOnly(tokens) == [k \in 1..Len(tokens) |-> <<tokens[k], k>>]
calculateTF(tokens) == TFFrom(<<>>, tokens)

\* The accumulators after one token: weight added where the bit of the token's
\* hash is 1, subtracted where it is 0.
Vote(vector, half, weight) ==
    [i \in 0..31 |-> IF Bit(half, i) = 1 THEN vector[i] + weight ELSE vector[i] - weight]

RECURSIVE VotesFrom(_, _)
\* The loop over the entries of tf, from the accumulators v = [high, low].
VotesFrom(v, tf) ==
    IF tf = <<>> THEN v
    ELSE LET hash == fnv1a64(Head(tf)[1])
             weight == Head(tf)[2]
         IN  VotesFrom([high |-> Vote(v.high, hash.high, weight),
                        low |-> Vote(v.low, hash.low, weight)], Tail(tf))

RECURSIVE BitsFrom(_, _, _)
\* The sum of 2^(i - from) over the positions from <= i < to whose accumulator
\* is positive.
BitsFrom(vector, from, to) ==
    IF from >= to THEN 0
    ELSE (IF vector[from] > 0 THEN 1 ELSE 0) + 2 * BitsFrom(vector, from + 1, to)

\* The word with bit i set exactly when vector[i] > 0.
ToBitsNonNegative(vector) ==
    Word(BitsFrom([i \in 0..31 |-> vector[i] + 1], 16, 32),
         BitsFrom([i \in 0..31 |-> vector[i] + 1], 0, 16))
ToBits(vector) == Word(BitsFrom(vector, 16, 32), BitsFrom(vector, 0, 16))

ZeroWord == Word(0, 0)
ZeroHash == [high |-> ZeroWord, low |-> ZeroWord]

\* generateSimHash(text)
generateSimHash(text) ==
    LET tokens == tokenize(text)
    IN  IF Len(tokens) = 0 THEN ZeroHash
        ELSE LET v == VotesFrom([high |-> [i \in 0..31 |-> 0], low |-> [i \in 0..31 |-> 0]],
                                calculateTF(tokens))
             IN  [high |-> ToBits(v.high), low |-> ToBits(v.low)]

---------------------------------------------------------------------------
(* generateSimHash called on a text *)

\* The most words of a text.
MaxWords == 3

\* Words: stop words, numbers, a word of one letter, a word of 31 letters,
\* words that are tokens, one of them in capitals, one holding an underscore,
\* and one that an apostrophe separates into a token and a single letter.
Vocabulary ==
    {<<"t", "h", "e">>, <<"a">>, <<"1", "2", "3">>,
     <<"f", "o", "x">>, <<"F", "O", "X">>,
     <<"a", "_", "1">>, <<"d", "o", "g", "APOS", "s">>,
     [k \in 1..31 |-> "z"]}

Separators == {<<" ">>, <<",", "LF">>}

RECURSIVE Join(_, _)
\* words.join(sep)
Join(words, sep) ==
    IF words = <<>> THEN <<>>
    ELSE IF Len(words) = 1 THEN Head(words)
    ELSE Head(words) \o sep \o Join(Tail(words), sep)

\* The sequences of 0 to MaxWords words, and the text of stop words and
\* numbers only.
WordLists ==
    UNION {[1..n -> Vocabulary] : n \in 0..MaxWords}
        \cup {<<<<"t", "h", "e">>, <<"a">>, <<"a", "n">>, <<"1", "2", "3">>, <<"4", "5", "6">>>>}

SimHashInputs ==
    {[phase |-> "ready", words |-> ws, sep |-> sep, text |-> Join(ws, sep),
      tokens |-> <<>>, hash |-> ZeroHash] : ws \in WordLists, sep \in Separators}

otherThanHashed == <<sealVars, chunked, builds, compared, clustered, laterCalls>>

InitSimHash ==
    /\ NoSeal
    /\ hashed \in SimHashInputs
    /\ chunked = Idle /\ builds = Idle /\ compared = Idle /\ clustered = Idle
    /\ NoLaterCall

\* hash = generateSimHash(text)
GenerateSimHash ==
    /\ hashed.phase = "ready"
    /\ hashed' = [hashed EXCEPT !.phase = "done",
                                !.tokens = tokenize(hashed.text),
                                !.hash = generateSimHash(hashed.text)]
    /\ UNCHANGED otherThanHashed

NextSimHash == GenerateSimHash

SpecSimHash == InitSimHash /\ [][NextSimHash]_vars

\* C13: fnv1a64(token) is the standard 64-bit FNV-1a hash of the token's
\* characters, as its high and low 32-bit halves, for every token of ASCII
\* word characters.
C13_StandardFnv1a ==
    hashed.phase = "done" =>
        \A k \in 1..Len(hashed.tokens) :
            fnv1a64(hashed.tokens[k]) = ReferenceFnv(hashed.tokens[k])

\* Bit k (0..63) of a fingerprint or of a token's hash: the low half holds
\* bits 0..31, the high half bits 32..63.
HashBit(h, k) == IF k < 32 THEN Bit(h.low, k) ELSE Bit(h.high, k - 32)

\* The number of occurrences of a token among tokens.
Occurrences(tokens, token) == Cardinality({k \in 1..Len(tokens) : tokens[k] = token})

RECURSIVE VoteSum(_, _, _)
\* The sum over the distinct tokens in the set of + count where bit k of the
\* token's hash is 1 and - count where it is 0.
VoteSum(distinct, tokens, k) ==
    IF distinct = {} THEN 0
    ELSE LET token == CHOOSE x \in distinct : TRUE
             count == Occurrences(tokens, token)
         IN  (IF HashBit(fnv1a64(token), k) = 1 THEN count ELSE 0 - count)
                 + VoteSum(distinct \ {token}, tokens, k)

DistinctTokens(tokens) == {tokens[k] : k \in 1..Len(tokens)}

\* C14: for a text with at least one token, bit k of generateSimHash(text),
\* for each of the 64 positions, is 1 exactly when the sum over the distinct
\* tokens of +count (bit k of the token's hash 1) or -count (bit 0) is
\* strictly positive.
C14_BitIsSignOfVote ==
    (hashed.phase = "done" /\ hashed.tokens # <<>>) =>
        \A k \in 0..63 :
            (HashBit(hashed.hash, k) = 1)
                <=> (VoteSum(DistinctTokens(hashed.tokens), hashed.tokens, k) > 0)

C14_Witness ==
    /\ hashed.phase = "done"
    /\ Cardinality(DistinctTokens(hashed.tokens)) = 2
    /\ Len(hashed.tokens) = 2
    /\ \E k \in 0..63 :
          /\ VoteSum(DistinctTokens(hashed.tokens), hashed.tokens, k) = 0
          /\ HashBit(hashed.hash, k) = 0
    /\ \E k \in 0..63 : HashBit(hashed.hash, k) = 1

RECURSIVE WordsFrom(_, _, _)
\* The words of a text: its maximal runs of characters that are neither white
\* space nor punctuation (word: the run read so far).
WordsFrom(text, k, word) ==
    LET tail == IF word = <<>> THEN {} ELSE {word}
    IN  IF k > Len(text) THEN tail
        ELSE IF IsSpace(text[k]) \/ ~IsWordChar(text[k])
        THEN tail \cup WordsFrom(text, k + 1, <<>>)
        ELSE WordsFrom(text, k + 1, Append(word, text[k]))

\* A word that is no token: too short, too long, a stop word (in either case
\* of its letters), or digits only.
NoToken(word) ==
    \/ Len(word) < 2
    \/ Len(word) > 30
    \/ [k \in 1..Len(word) |-> ToLowerCase(word[k])] \in STOP_WORDS
    \/ \A k \in 1..Len(word) : IsDigit(word[k])

\* C15: generateSimHash returns {high: 0, low: 0} whenever tokenize yields no
\* token, which is the case for every text whose words, separated by white
\* space or punctuation, are all shorter than 2 characters, longer than 30, stop
\* words, or digits only.
C15_NoTokenZeroFingerprint ==
    hashed.phase = "done" =>
        /\ hashed.tokens = <<>> => hashed.hash = ZeroHash
        /\ (\A w \in WordsFrom(hashed.text, 1, <<>>) : NoToken(w)) =>
               (hashed.tokens = <<>> /\ hashed.hash = ZeroHash)

C15_Witness ==
    /\ hashed.phase = "done"
    /\ Len(hashed.words) = 5
    /\ hashed.sep = <<" ">>
    /\ Cardinality(WordsFrom(hashed.text, 1, <<>>)) = 5
    /\ \A w \in WordsFrom(hashed.text, 1, <<>>) : NoToken(w)
    /\ hashed.hash = ZeroHash

\* The orders of n words.
Orders(n) == {p \in [1..n -> 1..n] : \A i, j \in 1..n : p[i] = p[j] => i = j}

\* Texts of the same words: in every order with the separator sep, and in
\* reverse order with every separator.
Reordered(words, sep) ==
    {Join([k \in 1..Len(words) |-> words[p[k]]], sep) : p \in Orders(Len(words))}
        \cup {Join([k \in 1..Len(words) |-> words[Len(words) + 1 - k]], s) : s \in Separators}

\* Two token sequences with the same tokens, each as often.
SameTokens(s, u) ==
    /\ Len(s) = Len(u)
    /\ \A token \in DistinctTokens(s) \cup DistinctTokens(u) :
           Occurrences(s, token) = Occurrences(u, token)

\* C16: two texts whose token sequences are permutations of each other have
\* the same fingerprint.
C16_TokenOrderIrrelevant ==
    hashed.phase = "done" =>
        \A other \in Reordered(hashed.words, hashed.sep) :
            SameTokens(tokenize(other), hashed.tokens) => generateSimHash(other) = hashed.hash

C16_Witness ==
    /\ hashed.phase = "done"
    /\ Len(hashed.tokens) = 3
    /\ Cardinality(DistinctTokens(hashed.tokens)) = 2
    /\ hashed.tokens[1] = hashed.tokens[2]
    /\ \E other \in Reordered(hashed.words, hashed.sep) :
          /\ tokenize(other) # hashed.tokens
          /\ SameTokens(tokenize(other), hashed.tokens)
          /\ generateSimHash(other) = hashed.hash
    /\ hashed.hash # ZeroHash

---------------------------------------------------------------------------
(* hammingDistance and popcount32, src/unnamed/part_001:152-171 *)

\* n >> k for 1 <= k <= 16: the int32 shifted right, its sign filling in.
Shr(n, k) ==
    Word((n.hi \div (2 ^ k)) + (IF Negative(n) THEN ((2 ^ k) - 1) * (2 ^ (16 - k)) ELSE 0),
         (n.lo \div (2 ^ k)) + ((n.hi % (2 ^ k)) * (2 ^ (16 - k))))

\* a + b and a - b as the next bitwise operator reads them: modulo 2^32.  (The
\* numbers themselves are exact, and may lie outside the int32 range.)
Add32(a, b) ==
    LET lo == a.lo + b.lo
    IN  Word((a.hi + b.hi + (lo \div Half)) % Half, lo % Half)
Sub32(a, b) ==
    LET lo == a.lo - b.lo
    IN  Word((a.hi - b.hi + (lo \div Half)) % Half, lo % Half)

\* The lines of popcount32 before the return.
PopcountSteps(n) ==
    LET n1 == Sub32(n, And32(Shr(n, 1), Word(21845, 21845)))
        n2 == Add32(And32(n1, Word(13107, 13107)), And32(Shr(n1, 2), Word(13107, 13107)))
        n3 == And32(Add32(n2, Shr(n2, 4)), Word(3855, 3855))
        n4 == Add32(n3, Shr(n3, 8))
    IN  Add32(n4, Shr(n4, 16))

\* popcount32(n): a number.
popcount32FiveBits(n) == And16(PopcountSteps(n).lo, 31)
popcount32(n) == And16(PopcountSteps(n).lo, 63)

\* hammingDistance(a, b)
hammingDistance(a, b) == popcount32(Xor32(a.high, b.high)) + popcount32(Xor32(a.low, b.low))

\* Halves: no bit, one bit at either end, all bits, all but the top bit, every
\* other bit, either 16-bit half, and two without pattern.
SampleHalves ==
    {Word(0, 0), Word(0, 1), Word(32768, 0), Word(65535, 65535), Word(32767, 65535),
     Word(43690, 43690), Word(21845, 21845), Word(0, 65535), Word(65535, 0),
     Word(4660, 22136), Word(52719, 4660)}

SampleHashes == {[high |-> h, low |-> l] : h, l \in SampleHalves}

otherThanCompared == <<sealVars, chunked, builds, hashed, clustered, laterCalls>>

InitHamming ==
    /\ NoSeal
    /\ compared \in {[phase |-> "ready", a |-> a, b |-> b, distance |-> 0] :
                        a, b \in SampleHashes}
    /\ chunked = Idle /\ builds = Idle /\ hashed = Idle /\ clustered = Idle
    /\ NoLaterCall

\* distance = hammingDistance(a, b)
HammingDistance ==
    /\ compared.phase = "ready"
    /\ compared' = [compared EXCEPT !.phase = "done",
                                    !.distance = hammingDistance(compared.a, compared.b)]
    /\ UNCHANGED otherThanCompared

NextHamming == HammingDistance

SpecHamming == InitHamming /\ [][NextHamming]_vars

\* C17: for fingerprints a, b with halves in 0..2^32-1, hammingDistance(a, b)
\* is the number of the 64 bit positions at which a and b differ; so it lies in
\* 0..64 and hammingDistance(a, a) = 0.
C17_HammingCountsDifferingBits ==
    compared.phase = "done" =>
        /\ compared.distance =
               Cardinality({k \in 0..63 : HashBit(compared.a, k) # HashBit(compared.b, k)})
        /\ compared.distance \in 0..64
        /\ compared.a = compared.b => compared.distance = 0

C17_Witness ==
    /\ compared.phase = "done"
    /\ Negative(Xor32(compared.a.high, compared.b.high))
    /\ Negative(Xor32(compared.a.low, compared.b.low))
    /\ compared.distance = 64

---------------------------------------------------------------------------
(* findSimilarPairs and clusterBySimilarity, src/unnamed/part_001:178-272 *)

\* distanceToSimilarity(distance) for an integer distance 0..64:
\* Math.round((1 - distance / 64) * 100).  (1 - distance / 64) * 100 is the
\* exact number 25 * (64 - distance) / 16, and Math.round(x) is floor(x + 1/2).
distanceToSimilarityFloor(distance) == (25 * (64 - distance)) \div 16
distanceToSimilarity(distance) == (25 * (64 - distance) + 8) \div 16

\* A threshold: a number, or NaN.
Num(k) == [nan |-> FALSE, n |-> k]
NaN == [nan |-> TRUE, n |-> 0]

\* distance <= threshold
AtMost(distance, threshold) == ~threshold.nan /\ distance <= threshold.n

\* isSimilar(a, b, threshold)
isSimilar(a, b, threshold) == AtMost(hammingDistance(a, b), threshold)

RECURSIVE PairsFrom(_, _, _, _)
\* The two loops of findSimilarPairs from (i, j) on; hashes[i + 1] is the
\* element of index i.
PairsFrom(hashes, threshold, i, j) ==
    IF i >= Len(hashes) THEN <<>>
    ELSE IF j >= Len(hashes) THEN PairsFrom(hashes, threshold, i + 1, i + 2)
    ELSE LET distance == hammingDistance(hashes[i + 1], hashes[j + 1])
             rest == PairsFrom(hashes, threshold, i, j + 1)
         IN  IF AtMost(distance, threshold)
             THEN <<[i |-> i, j |-> j, similarity |-> distanceToSimilarity(distance)]>> \o rest
             ELSE rest

\* The comparator of the sort: (a, b) => b.similarity - a.similarity.
CompareAscending(a, b) == a.similarity - b.similarity
Compare(a, b) == b.similarity - a.similarity

RECURSIVE Insert(_, _)
\* x put into the sorted sequence s behind every element that does not compare
\* after it.
Insert(s, x) ==
    IF s = <<>> THEN <<x>>
    ELSE IF Compare(Head(s), x) <= 0 THEN <<Head(s)>> \o Insert(Tail(s), x)
    ELSE <<x>> \o s

RECURSIVE Sort(_)
\* pairs.sort(compare): a stable sort.
Sort(s) == IF s = <<>> THEN <<>> ELSE Insert(Sort(SubSeq(s, 1, Len(s) - 1)), s[Len(s)])

\* findSimilarPairs(hashes, threshold)
findSimilarPairs(hashes, threshold) == Sort(PairsFrom(hashes, threshold, 0, 1))

\* visited.add(j)
AddNothing(visited, j) == visited
Add(visited, j) == visited \cup {j}

\* The test that puts j into the cluster whose seed is i.
JoinsAnyMember(hashes, threshold, cluster, i, j) ==
    \E k \in 1..Len(cluster) : isSimilar(hashes[cluster[k] + 1], hashes[j + 1], threshold)
JoinsCluster(hashes, threshold, cluster, i, j) ==
    isSimilar(hashes[i + 1], hashes[j + 1], threshold)

\* cluster.push(j), and j put in front instead.
Unshift(cluster, j) == <<j>> \o cluster
Push(cluster, j) == Append(cluster, j)

RECURSIVE MembersFrom(_, _, _, _, _)
\* The inner loop of clusterBySimilarity from j on, for the seed i:
\* [cluster, visited].
MembersFrom(hashes, threshold, i, j, acc) ==
    IF j >= Len(hashes) THEN acc
    ELSE IF j \in acc.visited THEN MembersFrom(hashes, threshold, i, j + 1, acc)
    ELSE IF JoinsCluster(hashes, threshold, acc.cluster, i, j)
    THEN MembersFrom(hashes, threshold, i, j + 1,
                     [cluster |-> Push(acc.cluster, j), visited |-> Add(acc.visited, j)])
    ELSE MembersFrom(hashes, threshold, i, j + 1, acc)

RECURSIVE ClustersFrom(_, _, _, _)
\* The outer loop of clusterBySimilarity from i on.
ClustersFrom(hashes, threshold, i, visited) ==
    IF i >= Len(hashes) THEN <<>>
    ELSE IF i \in visited THEN ClustersFrom(hashes, threshold, i + 1, visited)
    ELSE LET acc == MembersFrom(hashes, threshold, i, i + 1,
                                [cluster |-> <<i>>, visited |-> Add(visited, i)])
         IN  <<acc.cluster>> \o ClustersFrom(hashes, threshold, i + 1, acc.visited)

\* clusterBySimilarity(hashes, threshold)
clusterBySimilarity(hashes, threshold) == ClustersFrom(hashes, threshold, 0, {})

\* The most fingerprints of a list.
MaxHashes == 3

\* Fingerprints: three in a row, the second 3 bits from the first and 2 bits
\* from the third, the outer two 5 bits apart, and two far from those, 1 bit
\* apart, with top bits set.
ClusterHashes ==
    {[high |-> Word(0, 0), low |-> Word(0, 0)],
     [high |-> Word(0, 0), low |-> Word(0, 7)],
     [high |-> Word(0, 0), low |-> Word(0, 31)],
     [high |-> Word(65535, 65535), low |-> Word(32768, 0)],
     [high |-> Word(65535, 65535), low |-> Word(32768, 1)]}

Thresholds == {Num(0 - 1), Num(0), Num(3), Num(6), Num(64), NaN}

ClusterInputs ==
    {[phase |-> "ready", hashes |-> hs, threshold |-> th, pairs |-> <<>>, clusters |-> <<>>] :
        hs \in UNION {[1..n -> ClusterHashes] : n \in 0..MaxHashes}, th \in Thresholds}

otherThanClustered == <<sealVars, chunked, builds, hashed, compared, laterCalls>>

InitCluster ==
    /\ NoSeal
    /\ clustered \in ClusterInputs
    /\ chunked = Idle /\ builds = Idle /\ hashed = Idle /\ compared = Idle
    /\ NoLaterCall

\* pairs = findSimilarPairs(hashes, threshold)
FindSimilarPairs ==
    /\ clustered.phase = "ready"
    /\ clustered' = [clustered EXCEPT !.phase = "paired",
                         !.pairs = findSimilarPairs(clustered.hashes, clustered.threshold)]
    /\ UNCHANGED otherThanClustered

\* clusters = clusterBySimilarity(hashes, threshold)
ClusterBySimilarity ==
    /\ clustered.phase = "paired"
    /\ clustered' = [clustered EXCEPT !.phase = "done",
                         !.clusters = clusterBySimilarity(clustered.hashes, clustered.threshold)]
    /\ UNCHANGED otherThanClustered

NextCluster == FindSimilarPairs \/ ClusterBySimilarity

SpecCluster == InitCluster /\ [][NextCluster]_vars

\* The number of bit positions at which the fingerprints of index i and j
\* differ.
Differing(i, j) ==
    Cardinality({k \in 0..63 :
        HashBit(clustered.hashes[i + 1], k) # HashBit(clustered.hashes[j + 1], k)})

\* The indices i and j are within the threshold of each other.
Within(i, j) == AtMost(Differing(i, j), clustered.threshold)

\* C18: findSimilarPairs returns exactly the index pairs (i, j), i < j, whose
\* distance is at most the threshold, each once, each with similarity =
\* distanceToSimilarity of its distance, similarity never increasing from one
\* entry to the next.
C18_PairsWithinThreshold ==
    clustered.phase \in {"paired", "done"} =>
        LET n == Len(clustered.hashes)
            pairs == clustered.pairs
            expected == {<<i, j>> \in (0..(n - 1)) \X (0..(n - 1)) : i < j /\ Within(i, j)}
        IN  /\ {<<pairs[k].i, pairs[k].j>> : k \in 1..Len(pairs)} = expected
            /\ Len(pairs) = Cardinality(expected)
            /\ \A k \in 1..Len(pairs) :
                   pairs[k].similarity = distanceToSimilarity(Differing(pairs[k].i, pairs[k].j))
            /\ \A k \in 1..(Len(pairs) - 1) : pairs[k].similarity >= pairs[k + 1].similarity

C18_Witness ==
    /\ clustered.phase = "paired"
    /\ Len(clustered.pairs) >= 2
    /\ Len(clustered.pairs) < (Len(clustered.hashes) * (Len(clustered.hashes) - 1)) \div 2
    /\ clustered.pairs[1].similarity > clustered.pairs[Len(clustered.pairs)].similarity
    /\ <<clustered.pairs[1].i, clustered.pairs[1].j>> # <<0, 1>>

RECURSIVE IsSeed(_)
\* The index j starts a cluster: no seed before it is within the threshold.
IsSeed(j) == \A i \in 0..(j - 1) : IsSeed(i) => ~Within(i, j)

\* The seed of the cluster of j: j itself, or the lowest seed before j within
\* the threshold.
SeedOf(j) ==
    IF IsSeed(j) THEN j
    ELSE CHOOSE i \in 0..(j - 1) :
             /\ IsSeed(i) /\ Within(i, j)
             /\ \A h \in 0..(i - 1) : ~(IsSeed(h) /\ Within(h, j))

\* C19: clusterBySimilarity puts every index j into the cluster of the lowest
\* seed i < j within the threshold of j, or makes j the seed of a new cluster
\* when no earlier seed is; membership is decided against the seed only, so for
\* [A, B, C] with A~B, B~C and A not~C the clusters are [[A, B], [C]].
C19_ClusterOfLowestSeed ==
    clustered.phase = "done" =>
        LET n == Len(clustered.hashes)
            clusters == clustered.clusters
        IN  /\ {clusters[c][1] : c \in 1..Len(clusters)} = {j \in 0..(n - 1) : IsSeed(j)}
            /\ \A c \in 1..Len(clusters) :
                   {clusters[c][k] : k \in 1..Len(clusters[c])}
                       = {j \in 0..(n - 1) : SeedOf(j) = clusters[c][1]}
            /\ \A c \in 1..(Len(clusters) - 1) : clusters[c][1] < clusters[c + 1][1]
            /\ \A c \in 1..Len(clusters) :
                   \A k \in 1..(Len(clusters[c]) - 1) : clusters[c][k] < clusters[c][k + 1]

C19_Witness ==
    /\ clustered.phase = "done"
    /\ Len(clustered.hashes) = 3
    /\ Within(0, 1) /\ Within(1, 2) /\ ~Within(0, 2)
    /\ clustered.clusters = <<<<0, 1>>, <<2>>>>

\* C20: the clusters partition the indices 0..n-1: every index is in exactly
\* one cluster, at one position, and no cluster is empty.  An empty list gives
\* no clusters and no pairs, a list of one gives one singleton cluster and no
\* pairs.
C20_ClustersPartitionIndices ==
    clustered.phase = "done" =>
        LET n == Len(clustered.hashes)
            clusters == clustered.clusters
        IN  /\ \A j \in 0..(n - 1) :
                   Cardinality({<<c, k>> \in (1..Len(clusters)) \X (1..n) :
                                    k <= Len(clusters[c]) /\ clusters[c][k] = j}) = 1
            /\ \A c \in 1..Len(clusters) :
                   /\ Len(clusters[c]) >= 1
                   /\ \A k \in 1..Len(clusters[c]) : clusters[c][k] \in 0..(n - 1)
            /\ n = 0 => (clusters = <<>> /\ clustered.pairs = <<>>)
            /\ n = 1 => (clusters = <<<<0>>>> /\ clustered.pairs = <<>>)

C20_Witness ==
    /\ clustered.phase = "done"
    /\ Len(clustered.hashes) = 3
    /\ Len(clustered.clusters) = 2
    /\ clustered.clusters[1] = <<0, 2>>
    /\ clustered.clusters[2] = <<1>>

\* C29: in every result of clusterBySimilarity the first elements of the
\* clusters (the seeds) are pairwise not within the threshold of each other (for
\* a numeric threshold: farther apart than it), the seed is the smallest index
\* of its cluster, the members of a cluster are in ascending index order, and
\* the clusters are in ascending order of their seeds.
C29_SeedsApartAndAscending ==
    clustered.phase = "done" =>
        LET clusters == clustered.clusters
            seed(c) == clusters[c][1]
        IN  /\ \A c, d \in 1..Len(clusters) :
                   c # d =>
                       /\ ~Within(seed(c), seed(d))
                       /\ ~clustered.threshold.nan =>
                              Differing(seed(c), seed(d)) > clustered.threshold.n
            /\ \A c \in 1..Len(clusters) :
                   \A k \in 2..Len(clusters[c]) :
                       /\ seed(c) < clusters[c][k]
                       /\ clusters[c][k - 1] < clusters[c][k]
            /\ \A c, d \in 1..Len(clusters) : c < d => seed(c) < seed(d)

C29_Witness ==
    /\ clustered.phase = "done"
    /\ Len(clustered.hashes) = 3
    /\ clustered.threshold = Num(3)
    /\ clustered.clusters = <<<<0, 2>>, <<1>>>>
    /\ Differing(0, 1) = 5
    /\ Differing(0, 2) = 3

---------------------------------------------------------------------------
(* simHashToHex and hexToSimHash, src/unnamed/part_001:196-213 *)

\* A number that is an integer of magnitude below 2^32, or NaN: what a half of
\* a fingerprint holds, and what parseInt returns for at most 8 characters.
Signed(neg, w) == [nan |-> FALSE, neg |-> neg /\ w # ZeroWord, w |-> w]
Unsigned(w) == Signed(FALSE, w)
NotANumber == [nan |-> TRUE, neg |-> FALSE, w |-> ZeroWord]

\* { high, low } as fnv1a64 and generateSimHash return it: each half is the
\* result of >>> 0.
Fingerprint(h) == [high |-> Unsigned(h.high), low |-> Unsigned(h.low)]

RECURSIVE Digits16(_)
\* The hex digits of k >= 0, without leading zeros ("0" for 0).
Digits16(k) ==
    IF k < 16 THEN <<HexDigits[k + 1]>> ELSE Append(Digits16(k \div 16), HexDigits[(k % 16) + 1])

\* str.padStart(n, '0')
PadStartNever(str, n) == str
PadStart(str, n) == [k \in 1..(IF Len(str) < n THEN n - Len(str) ELSE 0) |-> "0"] \o str

\* x.toString(16)
ToString16(x) ==
    IF x.nan THEN <<"N", "a", "N">>
    ELSE (IF x.neg THEN <<"-">> ELSE <<>>)
            \o (IF x.w.hi = 0 THEN Digits16(x.w.lo)
                ELSE Digits16(x.w.hi) \o PadStart(Digits16(x.w.lo), 4))

\* simHashToHex(hash)
simHashToHex(hash) == PadStart(ToString16(hash.high), 8) \o PadStart(ToString16(hash.low), 8)

\* The digit of radix 16 that the code unit u is, in either case.
IsRadixDigit(u) == IsHexDigit(ToLowerCase(u))

RECURSIVE TrimStart(_)
\* The string without its leading white space.
TrimStart(s) == IF s # <<>> /\ IsSpace(Head(s)) THEN TrimStart(Tail(s)) ELSE s

RECURSIVE DigitPrefix(_)
\* The longest prefix of s of digits of radix 16.
DigitPrefix(s) ==
    IF s # <<>> /\ IsRadixDigit(Head(s)) THEN <<Head(s)>> \o DigitPrefix(Tail(s)) ELSE <<>>

RECURSIVE ValueOfDigits(_, _)
\* The number that at most 4 digits denote (acc: the digits read so far).
ValueOfDigits(ds, acc) ==
    IF ds = <<>> THEN acc
    ELSE ValueOfDigits(Tail(ds), acc * 16 + HexValue(ToLowerCase(Head(ds))))

\* parseInt(s, 16) for a string of at most 8 characters: white space is
\* skipped, then a sign, then 0x or 0X, and the digits up to the first
\* character that is none are read; NaN when there is no digit.
parseInt(s) ==
    LET trimmed == TrimStart(s)
        neg == trimmed # <<>> /\ Head(trimmed) = "-"
        unsigned == IF trimmed # <<>> /\ Head(trimmed) \in {"-", "+"} THEN Tail(trimmed) ELSE trimmed
        body == IF Len(unsigned) >= 2 /\ Head(unsigned) = "0" /\ unsigned[2] \in {"x", "X"}
                THEN Tail(Tail(unsigned)) ELSE unsigned
        ds == DigitPrefix(body)
        n == Len(ds)
    IN  IF n = 0 THEN NotANumber
        ELSE Signed(neg, Word(ValueOfDigits(SubSeq(ds, 1, n - 4), 0),
                               ValueOfDigits(SubSeq(ds, IF n > 4 THEN n - 3 ELSE 1, n), 0)))

\* x >>> 0: ToUint32 of x, 0 for NaN.
ToUint32Forgotten(x) == x
ToUint32(x) ==
    IF x.nan THEN Unsigned(ZeroWord)
    ELSE IF x.neg THEN Unsigned(Sub32(ZeroWord, x.w))
    ELSE Unsigned(x.w)

\* hexToSimHash(hex)
hexToSimHash(hex) ==
    IF Len(hex) # 16 THEN Fingerprint(ZeroHash)
    ELSE [high |-> ToUint32(parseInt(SubSeq(hex, 1, 8))),
          low |-> ToUint32(parseInt(SubSeq(hex, 9, 16)))]

\* Fingerprints to serialize: the sample fingerprints, those that
\* generateSimHash produces for the words of the vocabulary, and those that
\* fnv1a64 produces for their tokens and for ''.
GivenFingerprints ==
    {Fingerprint(h) : h \in SampleHashes}
        \cup {Fingerprint(generateSimHash(w)) : w \in Vocabulary}
        \cup {Fingerprint(fnv1a64(token)) :
                 token \in {<<>>} \cup UNION {{tokenize(w)[k] : k \in 1..Len(tokenize(w))} :
                                                 w \in Vocabulary}}

\* Halves of hex strings: 8 lowercase hex digits; and 8 characters of which
\* one is no lowercase hex digit: a letter past f at the end and at the start,
\* a sign, white space in front and inside, the prefix 0x, capitals.
HexHalves ==
    {<<"0", "0", "0", "0", "0", "0", "0", "0">>, <<"f", "f", "f", "f", "f", "f", "f", "f">>,
     <<"0", "0", "0", "0", "0", "0", "0", "a">>, <<"8", "0", "0", "0", "0", "0", "0", "0">>,
     <<"d", "e", "a", "d", "b", "e", "e", "f">>, <<"0", "1", "2", "3", "4", "5", "6", "7">>}
OtherHalves ==
    {<<"0", "0", "0", "0", "0", "0", "1", "g">>, <<"z", "z", "z", "z", "z", "z", "z", "z">>,
     <<"-", "0", "0", "0", "0", "0", "0", "1">>, <<"+", "1", "2", "3", "4", "5", "6", "7">>,
     <<" ", "1", "2", "3", "4", "5", "6", "7">>, <<"1", "2", "3", "4", " ", "6", "7", "8">>,
     <<"0", "x", "0", "0", "0", "0", "1", "f">>, <<"D", "E", "A", "D", "B", "E", "E", "F">>}

\* Strings to parse: of 16 characters, and of 0, 8, 15 and 17.
GivenHex ==
    {a \o b : a, b \in HexHalves \cup OtherHalves}
        \cup {<<>>, <<"f">>}
        \cup HexHalves
        \cup {SubSeq(a \o a, 1, 15) : a \in HexHalves}
        \cup {a \o a \o <<"0">> : a \in HexHalves}

\* A call not made: of simHashToHex for hash, and of hexToSimHash for hex.
ConvertInputs ==
    {[phase |-> "hash", hash |-> f, hex |-> <<>>, back |-> Fingerprint(ZeroHash),
      again |-> <<>>] : f \in GivenFingerprints}
        \cup {[phase |-> "hex", hash |-> Fingerprint(ZeroHash), hex |-> h,
               back |-> Fingerprint(ZeroHash), again |-> <<>>] : h \in GivenHex}

otherThanConverted ==
    <<sealVars, chunked, builds, hashed, compared, clustered, rated, cached, evidenced>>

InitHex ==
    /\ NoSeal
    /\ chunked = Idle /\ builds = Idle /\ hashed = Idle /\ compared = Idle /\ clustered = Idle
    /\ converted \in ConvertInputs
    /\ rated = Idle /\ cached = Idle /\ evidenced = Idle

\* hex = simHashToHex(hash) of the given fingerprint, or
\* again = simHashToHex(back) of the one parsed
SimHashToHex ==
    /\ converted.phase \in {"hash", "parsed"}
    /\ converted' =
           IF converted.phase = "hash"
           THEN [converted EXCEPT !.phase = "hexed", !.hex = simHashToHex(converted.hash)]
           ELSE [converted EXCEPT !.phase = "parsed and hexed",
                                  !.again = simHashToHex(converted.back)]
    /\ UNCHANGED otherThanConverted

\* back = hexToSimHash(hex), of the given string or of the one written
HexToSimHash ==
    /\ converted.phase \in {"hex", "hexed"}
    /\ converted' =
           [converted EXCEPT !.phase = IF converted.phase = "hex" THEN "parsed"
                                       ELSE "hexed and parsed",
                             !.back = hexToSimHash(converted.hex)]
    /\ UNCHANGED otherThanConverted

NextHex == SimHashToHex \/ HexToSimHash

SpecHex == InitHex /\ [][NextHex]_vars

\* The string is 16 lowercase hex digits.
IsHex16(s) == Len(s) = 16 /\ \A k \in 1..16 : IsHexDigit(s[k])

\* The number below 2^16 that the digits s[from..from+3] denote.
Limb(s, from) ==
    4096 * HexValue(s[from]) + 256 * HexValue(s[from + 1])
        + 16 * HexValue(s[from + 2]) + HexValue(s[from + 3])

\* Both halves of the fingerprint are integers in 0..2^32-1.
IsUint32(x) == ~x.nan /\ ~x.neg /\ x.w.hi \in 0..(Half - 1) /\ x.w.lo \in 0..(Half - 1)
IsFingerprint(f) == IsUint32(f.high) /\ IsUint32(f.low)

\* C21: for a fingerprint f with halves in 0..2^32-1, simHashToHex(f) is 16
\* lowercase hex digits, the high half in the first 8 and the low half in the
\* last 8, and hexToSimHash(simHashToHex(f)) = f; and for a string h of 16
\* lowercase hex digits, simHashToHex(hexToSimHash(h)) = h.
C21_HexRoundTrip ==
    /\ (converted.phase \in {"hexed", "hexed and parsed"} /\ IsFingerprint(converted.hash)) =>
           /\ IsHex16(converted.hex)
           /\ converted.hash.high.w = Word(Limb(converted.hex, 1), Limb(converted.hex, 5))
           /\ converted.hash.low.w = Word(Limb(converted.hex, 9), Limb(converted.hex, 13))
    /\ (converted.phase = "hexed and parsed" /\ IsFingerprint(converted.hash)) =>
           converted.back = converted.hash
    /\ (converted.phase = "parsed and hexed" /\ IsHex16(converted.hex)) =>
           converted.again = converted.hex

C21_Witness ==
    /\ converted.phase = "hexed and parsed"
    /\ converted.hash.high.w = Word(0, 1)
    /\ converted.hash.low.w.hi >= Half \div 2
    /\ converted.back = converted.hash

\* C22: hexToSimHash of a malformed string (not 16 characters, or 16
\* characters of which one is no hex digit) is the zero fingerprint.
C22_MalformedHexIsZero ==
    (converted.phase \in {"parsed", "parsed and hexed"}
        /\ (Len(converted.hex) # 16 \/ \E k \in 1..16 : ~IsRadixDigit(converted.hex[k]))) =>
        converted.back = Fingerprint(ZeroHash)

\* C30: every fingerprint that generateSimHash, fnv1a64 and hexToSimHash
\* return has both halves in 0..2^32-1 (not negative, not NaN), and
\* simHashToHex of it is 16 hex digits.
C30_HalvesAreUint32 ==
    /\ converted.phase \in {"hash", "hexed", "hexed and parsed"} => IsFingerprint(converted.hash)
    /\ converted.phase \in {"hexed", "hexed and parsed"} => IsHex16(converted.hex)
    /\ converted.phase \in {"parsed", "hexed and parsed", "parsed and hexed"} =>
           IsFingerprint(converted.back)
    /\ converted.phase = "parsed and hexed" => IsHex16(converted.again)

C30_Witness ==
    /\ converted.phase = "parsed and hexed"
    /\ Len(converted.hex) = 16
    /\ converted.hex[1] = "-"
    /\ converted.hex[9] = "z"
    /\ converted.back.high.w = Word(65535, 65535)
    /\ converted.back.low.w = ZeroWord

---------------------------------------------------------------------------
(* distanceToSimilarity, src/unnamed/part_001:178-180 *)

otherThanRated ==
    <<sealVars, chunked, builds, hashed, compared, clustered, converted, cached, evidenced>>

\* Every distance of two fingerprints of 64 bits.
InitSimilarity ==
    /\ NoSeal
    /\ chunked = Idle /\ builds = Idle /\ hashed = Idle /\ compared = Idle /\ clustered = Idle
    /\ rated \in {[phase |-> "ready", distance |-> d, similarity |-> 0] : d \in 0..64}
    /\ converted = Idle /\ cached = Idle /\ evidenced = Idle

\* similarity = distanceToSimilarity(distance)
DistanceToSimilarity ==
    /\ rated.phase = "ready"
    /\ rated' = [rated EXCEPT !.phase = "done",
                              !.similarity = distanceToSimilarity(rated.distance)]
    /\ UNCHANGED otherThanRated

NextSimilarity == DistanceToSimilarity

SpecSimilarity == InitSimilarity /\ [][NextSimilarity]_vars

\* C23: distanceToSimilarity(d) for d in 0..64 is the integer nearest to
\* (1 - d/64) * 100 = 25 * (64 - d) / 16, the higher one of two equally near;
\* it lies in 0..100, is 100 for d = 0 and 0 for d = 64, and is strictly
\* decreasing in d.
C23_SimilarityRoundedAndDecreasing ==
    rated.phase = "done" =>
        LET d == rated.distance
            s == rated.similarity
        IN  /\ 16 * s - 8 <= 25 * (64 - d)
            /\ 25 * (64 - d) < 16 * s + 8
            /\ s \in 0..100
            /\ d = 0 => s = 100
            /\ d = 64 => s = 0
            /\ \A e \in 0..64 : e > d => distanceToSimilarity(e) < s

C23_Witness ==
    /\ rated.phase = "done"
    /\ rated.distance = 8
    /\ rated.similarity = 88

---------------------------------------------------------------------------
(* useSimilarity: hashCache, getFingerprint and clearCache,                  *)
(* src/hooks/useSimilarity.ts:28-50 and 183                                  *)

\* The most calls of getFingerprint and clearCache.
MaxCalls == 3

\* new Map()
EmptyMap == <<>>

\* new Map(prev).set(id, hash)
MapSet(prev, id, hash) ==
    [k \in (DOMAIN prev) \cup {id} |-> IF k = id THEN hash ELSE prev[k]]

\* The argument of setHashCache: the updater prev => new Map(prev).set(id,
\* hash) of getFingerprint, and the value new Map() of clearCache.
SetUpdate(id, hash) == [kind |-> "set", id |-> id, hash |-> hash]
ClearUpdate == [kind |-> "clear", id |-> "", hash |-> ZeroHash]

RECURSIVE ApplyUpdates(_, _)
\* The state after the queued updates, applied in the order of their calls.
ApplyUpdates(queue, state) ==
    IF queue = <<>> THEN state
    ELSE ApplyUpdates(Tail(queue),
                      IF Head(queue).kind = "clear" THEN EmptyMap
                      ELSE MapSet(state, Head(queue).id, Head(queue).hash))

\* The ids getFingerprint is called with: two ids, the empty string, and
\* "undefined" for the argument left out.
Ids == {"b1", "b2", "", "undefined"}

\* if (id ...): neither undefined nor ''
Truthy(id) == id \notin {"", "undefined"}

\* The contents: three with three different fingerprints, one of them zero.
CacheContents == {<<"f", "o", "x">>, <<"a", "_", "1">>, <<"t", "h", "e">>}

\* getFingerprint(content, id) of a render whose hashCache is closure:
\* [returned, queued], queued the updates passed to setHashCache.
getFingerprintUncached(closure, text, id) ==
    LET hash == generateSimHash(text)
    IN  [returned |-> hash, queued |-> IF Truthy(id) THEN <<SetUpdate(id, hash)>> ELSE <<>>]
getFingerprint(closure, text, id) ==
    IF Truthy(id) /\ id \in DOMAIN closure
    THEN [returned |-> closure[id], queued |-> <<>>]
    ELSE LET hash == generateSimHash(text)
         IN  [returned |-> hash,
              queued |-> IF Truthy(id) THEN <<SetUpdate(id, hash)>> ELSE <<>>]

\* The last call: none yet, or of clearCache.
NoCallYet == [op |-> "none", id |-> "undefined", content |-> <<>>, returned |-> ZeroHash]

otherThanCached ==
    <<sealVars, chunked, builds, hashed, compared, clustered, converted, rated, evidenced>>

\* The hook after its first render.  state: hashCache as committed; queue: the
\* updates not yet applied; closure: the hashCache of the render whose
\* getFingerprint the caller holds; last: the last call of getFingerprint;
\* stored: per id, what the first call since the last call of clearCache
\* passed to setHashCache.
InitCache ==
    /\ NoSeal
    /\ chunked = Idle /\ builds = Idle /\ hashed = Idle /\ compared = Idle /\ clustered = Idle
    /\ converted = Idle /\ rated = Idle /\ evidenced = Idle
    /\ cached = [phase |-> "rendered", state |-> EmptyMap, queue |-> <<>>, closure |-> EmptyMap,
                 calls |-> 0, last |-> NoCallYet, stored |-> EmptyMap]

\* hash = getFingerprint(content, id)
GetFingerprint(text, id) ==
    LET r == getFingerprint(cached.closure, text, id)
    IN  /\ cached.calls < MaxCalls
        /\ cached' = [cached EXCEPT
               !.calls = @ + 1,
               !.queue = @ \o r.queued,
               !.last = [op |-> "getFingerprint", id |-> id, content |-> text,
                         returned |-> r.returned],
               !.stored = IF r.queued # <<>> /\ id \notin DOMAIN cached.stored
                          THEN MapSet(@, id, r.returned) ELSE @]
        /\ UNCHANGED otherThanCached

\* clearCache()
ClearCache ==
    /\ cached.calls < MaxCalls
    /\ cached' = [cached EXCEPT !.calls = @ + 1,
                                !.queue = Append(@, ClearUpdate),
                                !.last = [NoCallYet EXCEPT !.op = "clearCache"],
                                !.stored = EmptyMap]
    /\ UNCHANGED otherThanCached

\* React applies the queued updates and renders the hook again.
Render ==
    /\ cached.queue # <<>>
    /\ cached' = [cached EXCEPT !.state = ApplyUpdates(cached.queue, cached.state),
                                !.queue = <<>>]
    /\ UNCHANGED otherThanCached

\* The caller takes the getFingerprint of the latest render.
TakeLatest ==
    /\ cached.closure # cached.state
    /\ cached' = [cached EXCEPT !.closure = cached.state]
    /\ UNCHANGED otherThanCached

NextCache ==
    \/ \E text \in CacheContents, id \in Ids : GetFingerprint(text, id)
    \/ ClearCache
    \/ Render
    \/ TakeLatest

SpecCache == InitCache /\ [][NextCache]_vars

\* The step is a call of getFingerprint with id.
CallsWith(id) ==
    /\ cached'.calls = cached.calls + 1
    /\ cached'.last.op = "getFingerprint"
    /\ cached'.last.id = id

\* C24, as stated: once a call of getFingerprint has stored a fingerprint
\* under id, every later call with id returns that fingerprint and leaves the
\* cache as it is, until clearCache is called.
C24_StoredIsReturned ==
    [][\A id \in DOMAIN cached.stored :
           CallsWith(id) =>
               /\ cached'.last.returned = cached.stored[id]
               /\ cached'.queue = cached.queue]_vars

\* C24: once a render has committed a fingerprint under id and the caller
\* holds the getFingerprint of that render or of a later one, getFingerprint
\* with id returns the committed fingerprint whatever the content is, and
\* calls setHashCache not at all; a call with an id its render has no entry
\* for, or with no id, computes the fingerprint of its content; and an id
\* leaves the committed cache only when an update of clearCache is applied.
C24_CommittedIsReturned ==
    [][/\ \A id \in DOMAIN cached.closure :
              CallsWith(id) =>
                  /\ cached'.last.returned = cached.closure[id]
                  /\ cached'.queue = cached.queue
                  /\ cached'.state = cached.state
       /\ \A id \in Ids \ DOMAIN cached.closure :
              CallsWith(id) =>
                  cached'.last.returned = generateSimHash(cached'.last.content)
       /\ \A id \in DOMAIN cached.state :
              id \notin DOMAIN cached'.state =>
                  \E k \in 1..Len(cached.queue) : cached.queue[k].kind = "clear"]_vars

C24_Witness ==
    /\ cached.calls >= 2
    /\ cached.last.op = "getFingerprint"
    /\ cached.last.id \in DOMAIN cached.closure
    /\ cached.closure = cached.state
    /\ cached.queue = <<>>
    /\ cached.last.returned = cached.closure[cached.last.id]
    /\ cached.last.returned # generateSimHash(cached.last.content)

---------------------------------------------------------------------------
(* verifyEvidence, src/utils/notary.ts:76-106 *)

\* The result of verifyEvidence: { valid, reason, details }; present = FALSE
\* is no details.
Details(contentMatch, sealIntact, timestampValid) ==
    [present |-> TRUE, contentMatch |-> contentMatch, sealIntact |-> sealIntact,
     timestampValid |-> timestampValid]
NoDetails == [Details(FALSE, FALSE, FALSE) EXCEPT !.present = FALSE]
EvidenceResult(valid, reason, details) == [valid |-> valid, reason |-> reason, details |-> details]

\* verifyEvidence(evidence) when Date.now() reads clock in verifyTimeLockSeal
\* and later in verifyEvidence.  Reading evidence.seal.timestamp of a seal that
\* is null or undefined throws, and so does comparing a symbol: the catch
\* clause returns a reason that starts with 'Verification error: ' and no
\* details.
verifyEvidence(evidence, clock, later, digestOk) ==
    LET result == verifyTimeLockSeal(evidence.contentHtml, evidence.seal, clock, digestOk)
        ts == ToNumber(evidence.seal.timestamp)
    IN  IF evidence.seal.kind # "object" \/ ts.thrown
        THEN EvidenceResult(FALSE, "Verification error: message", NoDetails)
        ELSE EvidenceResult(result.valid, result.reason,
                            Details(result.valid, result.valid, TimestampValid(ts, later)))

\* The seal s with the timestamp ts and the seal hash of its fields.
Reseal(s, ts) ==
    [s EXCEPT !.timestamp = ts,
              !.sealHash = JsStr(sha256(SealData(s.contentHash, ts, s.nonce).v))]

\* The seals of evidence whose content was c when it was sealed at StartTime:
\* the seal as created; the seal with another timestamp (a later one, none, or
\* null) and the seal hash of its fields; each of these with another seal
\* hash; no seal; and a seal whose timestamp is a symbol.
EvidenceSeals(c) ==
    LET created == createTimeLockSeal(c, StartTime, [i \in 1..NonceBytes |-> 0])
        stamped == {Reseal(created, ts) :
                       ts \in {JsNum(k) : k \in StartTime..(StartTime + MaxTicks + 1)}
                                  \cup {JsUndef, JsNull}}
    IN  stamped
            \cup {[s EXCEPT !.sealHash = JsStr(OtherString(s.sealHash.s))] : s \in stamped}
            \cup {NullSeal, [created EXCEPT !.timestamp = JsSym]}

\* Evidence: the content as sealed, or with a character added.
Evidence ==
    UNION {{[contentHtml |-> JsStr(d), seal |-> s] :
               d \in {c, Cat(c, Lit("x"))}, s \in EvidenceSeals(c)} :
           c \in {Fill(1), Fill(ChunkSize + 1)}}

otherThanEvidenced ==
    <<phase, content, entropy, sealedAt, orig, seal, call, page,
      chunked, builds, hashed, compared, clustered, converted, rated, cached>>

\* verifyEvidence not called yet.
InitEvidence ==
    /\ NoSeal
    /\ chunked = Idle /\ builds = Idle /\ hashed = Idle /\ compared = Idle /\ clustered = Idle
    /\ converted = Idle /\ rated = Idle /\ cached = Idle
    /\ evidenced \in {[phase |-> "ready", evidence |-> e, digestOk |-> ok, clock |-> 0,
                       inner |-> Result(FALSE, ""), later |-> 0,
                       result |-> EvidenceResult(FALSE, "", NoDetails)] :
                          e \in Evidence, ok \in BOOLEAN}

\* The clock advances, before the call or between its two readings.
TickEvidence ==
    /\ evidenced.phase \in {"ready", "awaited"}
    /\ now < StartTime + MaxTicks
    /\ now' = now + 1
    /\ UNCHANGED <<otherThanEvidenced, evidenced>>

\* result = await verifyTimeLockSeal(evidence.contentHtml, evidence.seal)
AwaitVerifyTimeLockSeal ==
    /\ evidenced.phase = "ready"
    /\ evidenced' = [evidenced EXCEPT
           !.phase = "awaited",
           !.clock = now,
           !.inner = verifyTimeLockSeal(evidenced.evidence.contentHtml, evidenced.evidence.seal,
                                        now, evidenced.digestOk)]
    /\ UNCHANGED <<otherThanEvidenced, now>>

\* verifyEvidence returns
VerifyEvidence ==
    /\ evidenced.phase = "awaited"
    /\ evidenced' = [evidenced EXCEPT
           !.phase = "returned",
           !.later = now,
           !.result = verifyEvidence(evidenced.evidence, evidenced.clock, now,
                                     evidenced.digestOk)]
    /\ UNCHANGED <<otherThanEvidenced, now>>

NextEvidence == TickEvidence \/ AwaitVerifyTimeLockSeal \/ VerifyEvidence

SpecEvidence == InitEvidence /\ [][NextEvidence]_vars

\* The three checks of the evidence, each by itself: the root recomputed from
\* contentHtml is seal.contentHash; the seal hash recomputed from the fields of
\* the seal is seal.sealHash; seal.timestamp <= the clock reading.
ContentMatches ==
    StrictEq(buildMerkleRoot(evidenced.evidence.contentHtml.s), evidenced.evidence.seal.contentHash)
SealIntact ==
    LET s == evidenced.evidence.seal
    IN  StrictEq(sha256(SealData(s.contentHash, s.timestamp, s.nonce).v), s.sealHash)
TimestampNotLater(clock) ==
    TimestampValid(ToNumber(evidenced.evidence.seal.timestamp), clock)

\* verifyTimeLockSeal has returned, and not from its catch clause.
NothingThrown ==
    /\ evidenced.phase \in {"awaited", "returned"}
    /\ evidenced.inner.reason # "Verification error"

\* C25: when nothing throws, verifyTimeLockSeal returns valid = true exactly
\* when the root matches, the seal hash matches and seal.timestamp <= now, and
\* otherwise the reason of the first check that fails, in the order content,
\* seal hash, timestamp.
C25_ValidIffThreeChecks ==
    NothingThrown =>
        LET r == evidenced.inner
        IN  /\ r.valid <=> (ContentMatches /\ SealIntact /\ TimestampNotLater(evidenced.clock))
            /\ ~ContentMatches => r.reason = "Content has been modified"
            /\ (ContentMatches /\ ~SealIntact) => r.reason = "Seal has been tampered with"
            /\ (ContentMatches /\ SealIntact /\ ~TimestampNotLater(evidenced.clock)) =>
                   r.reason = "Timestamp is in the future"

\* C27: in the result of verifyEvidence, details.contentMatch is true exactly
\* when the root recomputed from contentHtml is seal.contentHash, and
\* details.sealIntact exactly when the seal hash recomputed from the fields of
\* the seal is seal.sealHash, whatever the other checks give.
C27_DetailsReportEachCheck ==
    (evidenced.phase = "returned" /\ evidenced.result.details.present /\ NothingThrown) =>
        /\ evidenced.result.details.contentMatch <=> ContentMatches
        /\ evidenced.result.details.sealIntact <=> SealIntact

\* C28: whenever the reason is 'Timestamp is in the future'
\* details.timestampValid is false, and whenever valid is true
\* details.timestampValid is true, however the clock advances between the two
\* readings.
C28_TimestampConsistent ==
    (evidenced.phase = "returned" /\ evidenced.result.details.present) =>
        /\ evidenced.result.reason = "Timestamp is in the future" =>
               ~evidenced.result.details.timestampValid
        /\ evidenced.result.valid => evidenced.result.details.timestampValid

====
